---- MODULE Spec2Model ----
(***************************************************************************)
(* Recipe versioning engine of the manufacturing-operations backend:       *)
(* app/services/recipes_service.py, app/db/repositories/recipes_repo.py   *)
(* and the enable/disable handlers of app/api/v1/recipes.py.               *)
(*                                                                         *)
(* The Recipe Store is the Mongo collection "recipes": a sequence of       *)
(* documents in insertion order (find_one returns the first match).        *)
(* An optional value is a sequence of length 0 (None / field absent /      *)
(* null) or 1 (<<x>>).  Audit timestamps, publication date, publisher and  *)
(* the PT unit are passive data of a version and are not carried.          *)
(***************************************************************************)
EXTENDS Integers, Sequences, FiniteSets, TLC

VARIABLES recipes, staging, resp, pc, loc

vars == <<recipes, staging, resp, pc, loc>>

(* ------------------------------ bounds --------------------------------- *)
MaxVersion == 2

MaxBatches == 1

(* ------------------------------ options -------------------------------- *)
None == <<>>

Some(x) == <<x>>

IsSet(o) == o # <<>>

(* ------------------------------ catalog -------------------------------- *)
\* a field of a document read with .get(): absent (or null), a number, or a
\* text that float() rejects
Absent == [kind |-> "absent", n |-> 0]

Num(n) == [kind |-> "num", n |-> n]

Text == [kind |-> "text", n |-> 0]

\* products collection: sku -> document (read-only for the recipe engine);
\* pneto / piva / last are the cost fields the valuation reads
Products ==
    [sku \in {"PT1", "MP1", "MP2", "MP3", "MP4", "MP5"} |->
        IF sku = "PT1"
        THEN [id |-> "oid_PT1", tipo |-> "PT", pneto |-> Absent, piva |-> Absent, last |-> Absent]
        ELSE IF sku = "MP1"
        THEN [id |-> "oid_MP1", tipo |-> "MP", pneto |-> Num(4500), piva |-> Num(5355), last |-> Num(4000)]
        ELSE IF sku = "MP2"
        THEN [id |-> "oid_MP2", tipo |-> "MP", pneto |-> Absent, piva |-> Absent, last |-> Num(4000)]
        ELSE IF sku = "MP3"
        THEN [id |-> "oid_MP3", tipo |-> "MP", pneto |-> Num(100), piva |-> Absent, last |-> Absent]
        ELSE IF sku = "MP4"
        THEN [id |-> "oid_MP4", tipo |-> "MP", pneto |-> Text, piva |-> Text, last |-> Num(7)]
        ELSE [id |-> "oid_MP5", tipo |-> "MP", pneto |-> Num(0), piva |-> Absent, last |-> Num(7)]]

\* processes collection: codigo -> document
Processes == [codigo \in {"PROC-ABC"} |-> [id |-> "oid_PROC"]]

get_product_by_sku(sku) ==
    IF sku \in DOMAIN Products THEN Some(Products[sku]) ELSE None

get_pt_by_sku(sku) ==
    IF sku \in DOMAIN Products /\ Products[sku].tipo = "PT"
    THEN Some(Products[sku]) ELSE None

get_process_by_code(code) ==
    IF code \in DOMAIN Processes THEN Some(Processes[code]) ELSE None

Estados == {"borrador", "vigente", "obsoleta"}

(* --------------------------- store primitives -------------------------- *)
\* index of the first document of the collection for this product, 0 if none
find_by_pt_id(store, ptId) ==
    IF \E i \in 1..Len(store) : store[i].productPTId = ptId
    THEN CHOOSE i \in 1..Len(store) :
            /\ store[i].productPTId = ptId
            /\ \A j \in 1..(i - 1) : store[j].productPTId # ptId
    ELSE 0

\* index of the first embedded version with this number, 0 if none
\* (Mongo's positional operator "$" and next(... enumerate ...) both take the first)
VersionIndex(versiones, n) ==
    IF \E i \in 1..Len(versiones) : versiones[i].version = n
    THEN CHOOSE i \in 1..Len(versiones) :
            /\ versiones[i].version = n
            /\ \A j \in 1..(i - 1) : versiones[j].version # n
    ELSE 0

\* the duplicate check answers "not there" whatever the list holds
VersionExists_Never(versiones, n) == FALSE

\* any(int(v["version"]) == int(n) for v in versiones)
VersionExists(versiones, n) == \E i \in 1..Len(versiones) : versiones[i].version = n

insert_recipe(store, doc) == Append(store, doc)

\* the push forgets "$set vigenteVersion"
push_recipe_version_NoPointer(store, rid, vdoc, marcar_vigente) ==
    [store EXCEPT ![rid].versiones = Append(@, vdoc)]

\* "$set versiones" in place of "$push versiones"
push_recipe_version_Replace(store, rid, vdoc, marcar_vigente) ==
    [store EXCEPT ![rid].versiones = <<vdoc>>,
                  ![rid].vigenteVersion = IF marcar_vigente THEN Some(vdoc.version) ELSE @]

\* $push versiones, and $set vigenteVersion when marcar_vigente
push_recipe_version(store, rid, vdoc, marcar_vigente) ==
    [store EXCEPT ![rid].versiones = Append(@, vdoc),
                  ![rid].vigenteVersion = IF marcar_vigente THEN Some(vdoc.version) ELSE @]

\* the all-positional operator "$[]" in place of "$": every version is written
update_version_estado_All(store, rid, n, nuevo_estado) ==
    IF VersionIndex(store[rid].versiones, n) = 0 THEN store
    ELSE [store EXCEPT ![rid].versiones =
            [i \in 1..Len(@) |-> [@[i] EXCEPT !.estado = nuevo_estado]]]

\* {"_id": rid, "versiones.version": n} -> $set versiones.$.estado
update_version_estado(store, rid, n, nuevo_estado) ==
    LET i == VersionIndex(store[rid].versiones, n)
    IN  IF i = 0 THEN store
        ELSE [store EXCEPT ![rid].versiones[i].estado = nuevo_estado]

\* a clear that writes 0 instead of removing the field
clear_vigente_version_Zero(store, rid) == [store EXCEPT ![rid].vigenteVersion = Some(0)]

\* $unset vigenteVersion
clear_vigente_version(store, rid) == [store EXCEPT ![rid].vigenteVersion = None]

\* $set vigenteVersion (only when a value is given)
set_recipe_meta(store, rid, vigente_version) ==
    IF IsSet(vigente_version)
    THEN [store EXCEPT ![rid].vigenteVersion = vigente_version]
    ELSE store

(* ------------------------ component aggregation ------------------------ *)
RECURSIVE AggregateFrom_LastWins(_, _, _)
\* an "agg" whose repeated material takes the last quantity instead of the sum
AggregateFrom_LastWins(comps, k, agg) ==
    IF k > Len(comps) THEN agg
    ELSE LET c == comps[k]
             mp == get_product_by_sku(c.skuMP)[1]
             hit == {i \in 1..Len(agg) : agg[i].productId = mp.id}
         IN  IF hit = {}
             THEN AggregateFrom_LastWins(comps, k + 1,
                     Append(agg, [productId |-> mp.id,
                                  cantidadPorBase |-> c.cantidadPorBase,
                                  unidad |-> c.unidad,
                                  merma_pct |-> c.mermaPct]))
             ELSE LET i == CHOOSE x \in hit : TRUE
                  IN  AggregateFrom_LastWins(comps, k + 1,
                         [agg EXCEPT ![i].cantidadPorBase = c.cantidadPorBase])

RECURSIVE AggregateFrom(_, _, _)
\* the "agg" dict of create_recipe / add_version / update_version_full /
\* replace_componentes, in insertion order; every sku of comps resolves
AggregateFrom(comps, k, agg) ==
    IF k > Len(comps) THEN agg
    ELSE LET c == comps[k]
             mp == get_product_by_sku(c.skuMP)[1]
             hit == {i \in 1..Len(agg) : agg[i].productId = mp.id}
         IN  IF hit = {}
             THEN AggregateFrom(comps, k + 1,
                     Append(agg, [productId |-> mp.id,
                                  cantidadPorBase |-> c.cantidadPorBase,
                                  unidad |-> c.unidad,
                                  merma_pct |-> c.mermaPct]))
             ELSE LET i == CHOOSE x \in hit : TRUE
                  IN  AggregateFrom(comps, k + 1,
                         [agg EXCEPT ![i].cantidadPorBase = @ + c.cantidadPorBase])

Aggregate(comps) == AggregateFrom(comps, 1, <<>>)

\* some component sku has no product document ("Componente skuMP=... no existe")
ComponentMissing(comps) ==
    \E k \in 1..Len(comps) : get_product_by_sku(comps[k].skuMP) = None

(* ------------------------- process of a version ------------------------ *)
NoProcess == [processId |-> None, procesoEspecial_nombre |-> None,
              procesoEspecial_costo |-> None]

\* create_recipe / add_version: catalog process when a code is given (and
\* resolves), otherwise the inline special process of the payload
BuildProcess(proceso) ==
    IF proceso = None THEN NoProcess
    ELSE LET p == proceso[1]
         IN  IF IsSet(p.processCodigo)
             THEN LET pr == get_process_by_code(p.processCodigo[1])
                  IN  IF IsSet(pr) THEN [NoProcess EXCEPT !.processId = Some(pr[1].id)]
                      ELSE NoProcess
             ELSE [NoProcess EXCEPT !.procesoEspecial_nombre = p.procesoEspecialNombre,
                                    !.procesoEspecial_costo = p.procesoEspecialCosto]

BuildVersion(v) ==
    LET pr == BuildProcess(v.proceso)
    IN  [version |-> v.numero,
         estado |-> v.estado,
         base_qty |-> v.baseQty,
         processId |-> pr.processId,
         procesoEspecial_nombre |-> pr.procesoEspecial_nombre,
         procesoEspecial_costo |-> pr.procesoEspecial_costo,
         componentes |-> Aggregate(v.componentes)]

(* ------------------------------ services ------------------------------- *)
Result(store, status) == [store |-> store, status |-> status]

\* vigenteVersion of a new recipe document
InitialVigente(payload) ==
    IF IsSet(payload.vigenteVersion) THEN payload.vigenteVersion
    ELSE IF payload.version.estado = "vigente" /\ payload.version.marcarVigente
         THEN Some(payload.version.numero)
         ELSE None

\* create_recipe without the "existing" check
create_recipe_NoExistenceCheck(store, payload) ==
    LET pt == get_pt_by_sku(payload.skuPT)
    IN  IF pt = None THEN Result(store, "PT no encontrado")
        ELSE IF ComponentMissing(payload.version.componentes)
        THEN Result(store, "Componente no existe")
        ELSE Result(insert_recipe(store,
                        [productPTId |-> pt[1].id,
                         vigenteVersion |-> InitialVigente(payload),
                         versiones |-> <<BuildVersion(payload.version)>>]),
                    "ok")

create_recipe(store, payload) ==
    LET pt == get_pt_by_sku(payload.skuPT)
    IN  IF pt = None THEN Result(store, "PT no encontrado")
        ELSE IF find_by_pt_id(store, pt[1].id) # 0
        THEN Result(store, "La receta para este PT ya existe")
        ELSE IF ComponentMissing(payload.version.componentes)
        THEN Result(store, "Componente no existe")
        ELSE Result(insert_recipe(store,
                        [productPTId |-> pt[1].id,
                         vigenteVersion |-> InitialVigente(payload),
                         versiones |-> <<BuildVersion(payload.version)>>]),
                    "ok")

add_version(store, skuPT, v) ==
    LET pt == get_pt_by_sku(skuPT)
        rid == find_by_pt_id(store, pt[1].id)
    IN  IF pt = None THEN Result(store, "PT no encontrado")
        ELSE IF rid = 0 THEN Result(store, "Receta no existe")
        ELSE IF VersionExists(store[rid].versiones, v.numero)
        THEN Result(store, "La version ya existe")
        ELSE IF ComponentMissing(v.componentes)
        THEN Result(store, "Componente no existe")
        ELSE Result(push_recipe_version(store, rid, BuildVersion(v), v.marcarVigente),
                    "ok")

\* the three store writes of set_vigente, from the recipe document read as rec
SetVigenteWrites(store, rid, rec, n) ==
    LET s1 == update_version_estado(store, rid, n, "vigente")
        s2 == IF IsSet(rec.vigenteVersion) /\ rec.vigenteVersion[1] # n
              THEN update_version_estado(s1, rid, rec.vigenteVersion[1], "obsoleta")
              ELSE s1
    IN  set_recipe_meta(s2, rid, Some(n))

set_vigente(store, skuPT, n) ==
    LET pt == get_pt_by_sku(skuPT)
        rid == find_by_pt_id(store, pt[1].id)
    IN  IF pt = None THEN Result(store, "PT no encontrado")
        ELSE IF rid = 0 THEN Result(store, "Receta no encontrada")
        ELSE IF ~VersionExists(store[rid].versiones, n)
        THEN Result(store, "La version no existe")
        ELSE Result(SetVigenteWrites(store, rid, store[rid], n), "ok")

\* a disable that, without vigenteVersion, demotes the first version instead of returning
disable_current_vigente_DemoteFirst(store, skuPT) ==
    LET pt == get_pt_by_sku(skuPT)
        rid == find_by_pt_id(store, pt[1].id)
    IN  IF pt = None THEN Result(store, "PT no encontrado")
        ELSE IF rid = 0 THEN Result(store, "Receta no encontrada")
        ELSE IF store[rid].vigenteVersion = None
        THEN Result(update_version_estado(store, rid,
                        store[rid].versiones[1].version, "obsoleta"), "ok")
        ELSE Result(clear_vigente_version(
                        update_version_estado(store, rid,
                            store[rid].vigenteVersion[1], "obsoleta"), rid),
                    "ok")

\* POST /recipes/{skuPT}/disable
disable_current_vigente(store, skuPT) ==
    LET pt == get_pt_by_sku(skuPT)
        rid == find_by_pt_id(store, pt[1].id)
    IN  IF pt = None THEN Result(store, "PT no encontrado")
        ELSE IF rid = 0 THEN Result(store, "Receta no encontrada")
        ELSE IF store[rid].vigenteVersion = None THEN Result(store, "ok")
        ELSE Result(clear_vigente_version(
                        update_version_estado(store, rid,
                            store[rid].vigenteVersion[1], "obsoleta"), rid),
                    "ok")

\* POST /recipes/{skuPT}/versions/{version}/disable
disable_specific_version(store, skuPT, n) ==
    LET pt == get_pt_by_sku(skuPT)
        rid == find_by_pt_id(store, pt[1].id)
    IN  IF pt = None THEN Result(store, "PT no encontrado")
        ELSE IF rid = 0 THEN Result(store, "Receta no encontrada")
        ELSE IF ~VersionExists(store[rid].versiones, n)
        THEN Result(store, "La version no existe")
        ELSE LET s1 == update_version_estado(store, rid, n, "obsoleta")
             IN  IF store[rid].vigenteVersion = Some(n)
                 THEN Result(clear_vigente_version(s1, rid), "ok")
                 ELSE Result(s1, "ok")

\* set_fields that leave procesoEspecial_* alone when a process code is given
ApplyBody_KeepInline(ver, body) ==
    LET e  == IF IsSet(body.estado) THEN [ver EXCEPT !.estado = body.estado[1]] ELSE ver
        b  == IF IsSet(body.baseQty) THEN [e EXCEPT !.base_qty = body.baseQty[1]] ELSE e
        p  == IF body.proceso = None THEN b
              ELSE IF IsSet(body.proceso[1].processCodigo)
              THEN [b EXCEPT
                      !.processId = Some(get_process_by_code(body.proceso[1].processCodigo[1])[1].id)]
              ELSE [b EXCEPT
                      !.processId = None,
                      !.procesoEspecial_nombre = body.proceso[1].procesoEspecialNombre,
                      !.procesoEspecial_costo = body.proceso[1].procesoEspecialCosto]
    IN  IF IsSet(body.componentes)
        THEN [p EXCEPT !.componentes = Aggregate(body.componentes[1])]
        ELSE p

\* set_fields that write every field, an omitted process as "no process"
ApplyBody_ResetOmitted(ver, body) ==
    LET e  == IF IsSet(body.estado) THEN [ver EXCEPT !.estado = body.estado[1]] ELSE ver
        b  == IF IsSet(body.baseQty) THEN [e EXCEPT !.base_qty = body.baseQty[1]] ELSE e
        p  == IF body.proceso = None
              THEN [b EXCEPT !.processId = None, !.procesoEspecial_nombre = None,
                             !.procesoEspecial_costo = None]
              ELSE IF IsSet(body.proceso[1].processCodigo)
              THEN [b EXCEPT
                      !.processId = Some(get_process_by_code(body.proceso[1].processCodigo[1])[1].id),
                      !.procesoEspecial_nombre = None,
                      !.procesoEspecial_costo = None]
              ELSE [b EXCEPT
                      !.processId = None,
                      !.procesoEspecial_nombre = body.proceso[1].procesoEspecialNombre,
                      !.procesoEspecial_costo = body.proceso[1].procesoEspecialCosto]
    IN  IF IsSet(body.componentes)
        THEN [p EXCEPT !.componentes = Aggregate(body.componentes[1])]
        ELSE p

\* the set_fields of update_version_full applied to the version document
ApplyBody(ver, body) ==
    LET e  == IF IsSet(body.estado) THEN [ver EXCEPT !.estado = body.estado[1]] ELSE ver
        b  == IF IsSet(body.baseQty) THEN [e EXCEPT !.base_qty = body.baseQty[1]] ELSE e
        p  == IF body.proceso = None THEN b
              ELSE IF IsSet(body.proceso[1].processCodigo)
              THEN [b EXCEPT
                      !.processId = Some(get_process_by_code(body.proceso[1].processCodigo[1])[1].id),
                      !.procesoEspecial_nombre = None,
                      !.procesoEspecial_costo = None]
              ELSE [b EXCEPT
                      !.processId = None,
                      !.procesoEspecial_nombre = body.proceso[1].procesoEspecialNombre,
                      !.procesoEspecial_costo = body.proceso[1].procesoEspecialCosto]
    IN  IF IsSet(body.componentes)
        THEN [p EXCEPT !.componentes = Aggregate(body.componentes[1])]
        ELSE p

\* {"_id": rid, "versiones.version": n} -> $set of paths "versiones.<idx>.<field>"
update_version_fields(store, rid, n, idx, body) ==
    IF VersionExists(store[rid].versiones, n) /\ idx <= Len(store[rid].versiones)
    THEN [store EXCEPT ![rid].versiones[idx] = ApplyBody(@, body)]
    ELSE store

update_version_full(store, skuPT, n, body) ==
    LET pt == get_pt_by_sku(skuPT)
        rid == find_by_pt_id(store, pt[1].id)
        idx == VersionIndex(store[rid].versiones, n)
    IN  IF pt = None THEN Result(store, "PT no encontrado")
        ELSE IF rid = 0 THEN Result(store, "Receta no encontrada")
        ELSE IF idx = 0 THEN Result(store, "La version no existe")
        ELSE IF /\ IsSet(body.proceso)
                /\ IsSet(body.proceso[1].processCodigo)
                /\ get_process_by_code(body.proceso[1].processCodigo[1]) = None
        THEN Result(store, "Proceso no encontrado")
        ELSE IF IsSet(body.componentes) /\ ComponentMissing(body.componentes[1])
        THEN Result(store, "Componente no existe")
        ELSE Result(update_version_fields(store, rid, n, idx, body), "ok")

\* {"_id": rid, "versiones.version": n} -> $set versiones.$.componentes
replace_version_components(store, rid, n, componentes) ==
    LET i == VersionIndex(store[rid].versiones, n)
    IN  IF i = 0 THEN store
        ELSE [store EXCEPT ![rid].versiones[i].componentes = componentes]

replace_componentes(store, skuPT, n, comps) ==
    LET pt == get_pt_by_sku(skuPT)
        rid == find_by_pt_id(store, pt[1].id)
    IN  IF pt = None THEN Result(store, "PT no encontrado")
        ELSE IF rid = 0 THEN Result(store, "Receta no encontrada")
        ELSE IF ~VersionExists(store[rid].versiones, n)
        THEN Result(store, "La version no existe")
        ELSE IF ComponentMissing(comps) THEN Result(store, "Componente no existe")
        ELSE Result(replace_version_components(store, rid, n, Aggregate(comps)), "ok")

(* --------------------------- CSV cell parsing -------------------------- *)
\* float(v) of the cell texts that occur in the uploads below; any other
\* text (the empty cell included) does not parse
Numeric ==
    [t \in {"0", "1", "2", "5", "10", "-1"} |->
        IF t = "0" THEN 0 ELSE IF t = "1" THEN 1 ELSE IF t = "2" THEN 2
        ELSE IF t = "5" THEN 5 ELSE IF t = "10" THEN 10 ELSE 0 - 1]

\* _to_num(v, default), default given as an option
to_num(t, default) == IF t \in DOMAIN Numeric THEN Some(Numeric[t]) ELSE default

\* str(v).strip().lower()
Lower(t) ==
    IF t = "TRUE" THEN "true"
    ELSE IF t = "Vigente" THEN "vigente"
    ELSE t

\* _to_bool
to_bool(t) == Lower(t) \in {"true", "1", "si", "y", "yes"}

\* _normalize_publication_datetime accepts the empty cell (today) and
\* ISO / d-m-Y / d/m/Y / Y/m/d dates
DateParses(t) == t \in {"", "2025-10-13", "13/10/2025"}

(* ---------------------------- Staging Store ---------------------------- *)
\* a filter that keeps a row as soon as one of sku_PT, version is given
StageAccepts_EitherKey(r) == r.sku_PT # "" \/ r.version # ""

\* stage_insert_rows: rows without sku_PT or without version are dropped
StageAccepts(r) == r.sku_PT # "" /\ r.version # ""

stage_insert_rows(stage, rows, batch_id) ==
    stage \o [i \in 1..Len(SelectSeq(rows, StageAccepts)) |->
                [batch_id |-> batch_id, row |-> SelectSeq(rows, StageAccepts)[i]]]

\* the pair stage_insert_rows returns: rows inserted, one warning per row dropped
StageReply(rows) ==
    [inserted |-> Len(SelectSeq(rows, StageAccepts)),
     warnings |-> Len(rows) - Len(SelectSeq(rows, StageAccepts))]

StagedRows(stage, batch_id) ==
    LET hit == SelectSeq(stage, LAMBDA d : d.batch_id = batch_id)
    IN  [i \in 1..Len(hit) |-> hit[i].row]

(* ------------------------------ promotion ------------------------------ *)
RowKey(r) == <<r.sku_PT, to_num(r.version, Some(0))[1]>>

ValidKey(k) == k[1] # "" /\ k[2] > 0

RECURSIVE GroupKeysFrom(_, _, _)
\* keys of the dict "grupos" in insertion order
GroupKeysFrom(rows, i, keys) ==
    IF i > Len(rows) THEN keys
    ELSE LET k == RowKey(rows[i])
         IN  IF ValidKey(k) /\ ~(\E j \in 1..Len(keys) : keys[j] = k)
             THEN GroupKeysFrom(rows, i + 1, Append(keys, k))
             ELSE GroupKeysFrom(rows, i + 1, keys)

GroupKeys(rows) == GroupKeysFrom(rows, 1, <<>>)

GroupRows(rows, key) == SelectSeq(rows, LAMBDA r : RowKey(r) = key)

InvalidRows(rows) == SelectSeq(rows, LAMBDA r : ~ValidKey(RowKey(r)))

\* first(key): the first non-empty cell of the group, "" when there is none
First(rows_g, field) ==
    IF \E i \in 1..Len(rows_g) : rows_g[i][field] # ""
    THEN rows_g[CHOOSE i \in 1..Len(rows_g) :
                    /\ rows_g[i][field] # ""
                    /\ \A j \in 1..(i - 1) : rows_g[j][field] = ""][field]
    ELSE ""

RECURSIVE CompMapFrom(_, _, _)
\* comp_map keyed by sku_MP in insertion order (rows without sku_MP skipped)
CompMapFrom(rows_g, k, cmap) ==
    IF k > Len(rows_g) THEN cmap
    ELSE LET rr == rows_g[k]
             qty == to_num(rr.cantidad_por_base, Some(0))[1]
             hit == {i \in 1..Len(cmap) : cmap[i].sku = rr.sku_MP}
         IN  IF rr.sku_MP = "" THEN CompMapFrom(rows_g, k + 1, cmap)
             ELSE IF hit = {}
             THEN CompMapFrom(rows_g, k + 1,
                     Append(cmap, [sku |-> rr.sku_MP,
                                   cantidad |-> qty,
                                   unidad_MP |-> rr.unidad_MP,
                                   merma_pct |-> to_num(rr.merma_pct, Some(0))[1]]))
             ELSE LET i == CHOOSE x \in hit : TRUE
                  IN  CompMapFrom(rows_g, k + 1, [cmap EXCEPT ![i].cantidad = @ + qty])

\* componentes: the entries of comp_map whose sku has a product document
PromoteComponents(rows_g) ==
    LET cmap == CompMapFrom(rows_g, 1, <<>>)
        found == SelectSeq(cmap, LAMBDA e : IsSet(get_product_by_sku(e.sku)))
    IN  [i \in 1..Len(found) |->
            [productId |-> get_product_by_sku(found[i].sku)[1].id,
             cantidadPorBase |-> found[i].cantidad,
             unidad |-> found[i].unidad_MP,
             merma_pct |-> found[i].merma_pct]]

MissingComponents(rows_g) ==
    SelectSeq(CompMapFrom(rows_g, 1, <<>>), LAMBDA e : get_product_by_sku(e.sku) = None)

\* processId / procesoEspecial_* of version_doc
PromoteProcess(rows_g) ==
    LET code == First(rows_g, "process_codigo")
        pr == IF code # "" THEN get_process_by_code(code) ELSE None
        nombre == First(rows_g, "process_especial_nombre")
        costo == IF First(rows_g, "process_especial_costo") = "" THEN None
                 ELSE to_num(First(rows_g, "process_especial_costo"), None)
    IN  IF IsSet(pr) THEN [NoProcess EXCEPT !.processId = Some(pr[1].id)]
        ELSE [NoProcess EXCEPT
                !.procesoEspecial_nombre = IF nombre # "" THEN Some(nombre) ELSE None,
                !.procesoEspecial_costo = costo]

PromoteVersionDoc(rows_g, versionNum) ==
    LET pr == PromoteProcess(rows_g)
        estado == IF First(rows_g, "estado") = "" THEN "borrador"
                  ELSE Lower(First(rows_g, "estado"))
    IN  [version |-> versionNum,
         estado |-> estado,
         base_qty |-> to_num(First(rows_g, "base_qty"), Some(1))[1],
         processId |-> pr.processId,
         procesoEspecial_nombre |-> pr.procesoEspecial_nombre,
         procesoEspecial_costo |-> pr.procesoEspecial_costo,
         componentes |-> PromoteComponents(rows_g)]

ZeroRes ==
    [gruposProcesados |-> 0, recetasCreadas |-> 0, recetasActualizadas |-> 0,
     versionesAgregadas |-> 0, versionesRechazadas |-> 0, vigentesSeteadas |-> 0,
     warnings |-> 0, errores |-> 0]

\* a step 5 whose "not existing" branch inserts the recipe in a dry run too
PromoteWrite_DryRunInserts(st, ptId, vdoc, marcar_vigente, overwrite_version, dry_run) ==
    LET store == st.store
        res == st.res
        rid == find_by_pt_id(store, ptId)
        idx == VersionIndex(store[rid].versiones, vdoc.version)
        vig == IF marcar_vigente THEN 1 ELSE 0
    IN  IF rid = 0
        THEN [store |-> insert_recipe(store,
                                [productPTId |-> ptId,
                                 vigenteVersion |-> IF marcar_vigente
                                                    THEN Some(vdoc.version) ELSE None,
                                 versiones |-> <<vdoc>>]),
              res |-> [res EXCEPT !.recetasCreadas = @ + 1,
                                  !.vigentesSeteadas = @ + vig]]
        ELSE IF idx > 0 /\ ~overwrite_version
        THEN [store |-> store,
              res |-> [res EXCEPT !.versionesRechazadas = @ + 1,
                                  !.warnings = @ + 1]]
        ELSE IF dry_run
        THEN [store |-> store,
              res |-> IF idx > 0
                      THEN [res EXCEPT !.recetasActualizadas = @ + 1,
                                       !.vigentesSeteadas = @ + vig]
                      ELSE [res EXCEPT !.versionesAgregadas = @ + 1,
                                       !.vigentesSeteadas = @ + vig]]
        ELSE IF idx > 0
        THEN [store |-> [store EXCEPT ![rid].versiones[idx] = vdoc],
              res |-> [res EXCEPT !.recetasActualizadas = @ + 1]]
        ELSE [store |-> [store EXCEPT
                            ![rid].versiones = Append(@, vdoc),
                            ![rid].vigenteVersion = IF marcar_vigente
                                                    THEN Some(vdoc.version) ELSE @],
              res |-> [res EXCEPT !.versionesAgregadas = @ + 1,
                                  !.vigentesSeteadas = @ + vig]]

\* a step 5 whose overwrite pushes the new document instead of replacing the old
PromoteWrite_PushOnOverwrite(st, ptId, vdoc, marcar_vigente, overwrite_version, dry_run) ==
    LET store == st.store
        res == st.res
        rid == find_by_pt_id(store, ptId)
        idx == VersionIndex(store[rid].versiones, vdoc.version)
        vig == IF marcar_vigente THEN 1 ELSE 0
    IN  IF rid = 0
        THEN [store |-> IF dry_run THEN store
                        ELSE insert_recipe(store,
                                [productPTId |-> ptId,
                                 vigenteVersion |-> IF marcar_vigente
                                                    THEN Some(vdoc.version) ELSE None,
                                 versiones |-> <<vdoc>>]),
              res |-> [res EXCEPT !.recetasCreadas = @ + 1,
                                  !.vigentesSeteadas = @ + vig]]
        ELSE IF idx > 0 /\ ~overwrite_version
        THEN [store |-> store,
              res |-> [res EXCEPT !.versionesRechazadas = @ + 1,
                                  !.warnings = @ + 1]]
        ELSE IF dry_run
        THEN [store |-> store,
              res |-> IF idx > 0
                      THEN [res EXCEPT !.recetasActualizadas = @ + 1,
                                       !.vigentesSeteadas = @ + vig]
                      ELSE [res EXCEPT !.versionesAgregadas = @ + 1,
                                       !.vigentesSeteadas = @ + vig]]
        ELSE IF idx > 0
        THEN [store |-> [store EXCEPT ![rid].versiones = Append(@, vdoc)],
              res |-> [res EXCEPT !.recetasActualizadas = @ + 1]]
        ELSE [store |-> [store EXCEPT
                            ![rid].versiones = Append(@, vdoc),
                            ![rid].vigenteVersion = IF marcar_vigente
                                                    THEN Some(vdoc.version) ELSE @],
              res |-> [res EXCEPT !.versionesAgregadas = @ + 1,
                                  !.vigentesSeteadas = @ + vig]]

\* step 5 of one group: create / append / reject / replace, with its counters
PromoteWrite(st, ptId, vdoc, marcar_vigente, overwrite_version, dry_run) ==
    LET store == st.store
        res == st.res
        rid == find_by_pt_id(store, ptId)
        idx == VersionIndex(store[rid].versiones, vdoc.version)
        vig == IF marcar_vigente THEN 1 ELSE 0
    IN  IF rid = 0
        THEN [store |-> IF dry_run THEN store
                        ELSE insert_recipe(store,
                                [productPTId |-> ptId,
                                 vigenteVersion |-> IF marcar_vigente
                                                    THEN Some(vdoc.version) ELSE None,
                                 versiones |-> <<vdoc>>]),
              res |-> [res EXCEPT !.recetasCreadas = @ + 1,
                                  !.vigentesSeteadas = @ + vig]]
        ELSE IF idx > 0 /\ ~overwrite_version
        THEN [store |-> store,
              res |-> [res EXCEPT !.versionesRechazadas = @ + 1,
                                  !.warnings = @ + 1]]
        ELSE IF dry_run
        THEN [store |-> store,
              res |-> IF idx > 0
                      THEN [res EXCEPT !.recetasActualizadas = @ + 1,
                                       !.vigentesSeteadas = @ + vig]
                      ELSE [res EXCEPT !.versionesAgregadas = @ + 1,
                                       !.vigentesSeteadas = @ + vig]]
        ELSE IF idx > 0
        THEN [store |-> [store EXCEPT ![rid].versiones[idx] = vdoc],
              res |-> [res EXCEPT !.recetasActualizadas = @ + 1]]
        ELSE [store |-> [store EXCEPT
                            ![rid].versiones = Append(@, vdoc),
                            ![rid].vigenteVersion = IF marcar_vigente
                                                    THEN Some(vdoc.version) ELSE @],
              res |-> [res EXCEPT !.versionesAgregadas = @ + 1,
                                  !.vigentesSeteadas = @ + vig]]

\* one iteration of "for (skuPT, versionNum), rows_g in grupos.items()"
PromoteGroup(st, key, rows, overwrite_version, dry_run) ==
    LET rows_g == GroupRows(rows, key)
        pt == get_pt_by_sku(key[1])
        code == First(rows_g, "process_codigo")
        wProc == IF code # "" /\ get_process_by_code(code) = None THEN 1 ELSE 0
        wNoMP == Len(SelectSeq(rows_g, LAMBDA r : r.sku_MP = ""))
        eMP == Len(MissingComponents(rows_g))
        vdoc == PromoteVersionDoc(rows_g, key[2])
        seen == [st EXCEPT !.res.warnings = @ + wProc + wNoMP,
                           !.res.errores = @ + eMP]
    IN  IF pt = None
        THEN [st EXCEPT !.res.errores = @ + 1]
        ELSE IF ~DateParses(First(rows_g, "fecha_publicacion"))
        THEN [st EXCEPT !.res.errores = @ + 1]
        ELSE IF vdoc.componentes = <<>>
        THEN [seen EXCEPT !.res.warnings = @ + 1]
        ELSE PromoteWrite(seen, pt[1].id, vdoc,
                          to_bool(First(rows_g, "marcar_vigente")),
                          overwrite_version, dry_run)

RECURSIVE PromoteGroups_StopAtError(_, _, _, _, _, _)
\* a loop that ends the batch at the first group that records an error and
\* writes nothing ("break" for "continue")
PromoteGroups_StopAtError(st, keys, g, rows, overwrite_version, dry_run) ==
    IF g > Len(keys) THEN st
    ELSE LET nxt == PromoteGroup(st, keys[g], rows, overwrite_version, dry_run)
         IN  IF nxt.store = st.store /\ nxt.res.errores > st.res.errores
             THEN nxt
             ELSE PromoteGroups_StopAtError(nxt, keys, g + 1, rows,
                                            overwrite_version, dry_run)

RECURSIVE PromoteGroups(_, _, _, _, _, _)
PromoteGroups(st, keys, g, rows, overwrite_version, dry_run) ==
    IF g > Len(keys) THEN st
    ELSE PromoteGroups(PromoteGroup(st, keys[g], rows, overwrite_version, dry_run),
                       keys, g + 1, rows, overwrite_version, dry_run)

\* returns [store, res]
promote_staging_batch(store, stage, batch_id, overwrite_version, dry_run) ==
    LET rows == StagedRows(stage, batch_id)
        keys == GroupKeys(rows)
        res0 == [ZeroRes EXCEPT !.gruposProcesados = Len(keys),
                                !.warnings = Len(InvalidRows(rows))]
    IN  PromoteGroups([store |-> store, res |-> res0], keys, 1, rows,
                      overwrite_version, dry_run)

(* ------------------------------ valuation ------------------------------ *)
\* Amounts are integers on fixed grids: unit_cost and qty_eff in hundredths,
\* subtotal, process_cost and total in ten-thousandths. round(x, 6) leaves
\* every value on these grids as it is.
Hundredths == 100

\* _num_or_zero: float(v) when it parses to a finite number, else 0
num_or_zero(v) == IF v.kind = "num" THEN v.n ELSE 0

CostMethods == {"last", "avg", "std", "pneto", "piva"}

\* a unit cost that falls back whenever the preferred field is no number
get_unit_cost_FallbackOnText(product, method) ==
    IF method = "pneto"
    THEN Hundredths * num_or_zero(IF product.pneto.kind # "num" THEN product.last
                                  ELSE product.pneto)
    ELSE IF method = "piva"
    THEN IF product.piva.kind # "num"
         THEN IF num_or_zero(product.pneto) > 0
              THEN 119 * num_or_zero(product.pneto)
              ELSE Hundredths * num_or_zero(product.last)
         ELSE Hundredths * num_or_zero(product.piva)
    ELSE Hundredths * num_or_zero(IF product.last.kind # "num" THEN product.pneto
                                  ELSE product.last)

\* _get_unit_cost, in hundredths (round(pn * 1.19, 6) is pn * 119 hundredths)
get_unit_cost(product, method) ==
    IF method = "pneto"
    THEN Hundredths * num_or_zero(IF product.pneto = Absent THEN product.last
                                  ELSE product.pneto)
    ELSE IF method = "piva"
    THEN IF product.piva = Absent
         THEN IF num_or_zero(product.pneto) > 0
              THEN 119 * num_or_zero(product.pneto)
              ELSE Hundredths * num_or_zero(product.last)
         ELSE Hundredths * num_or_zero(product.piva)
    ELSE Hundredths * num_or_zero(IF product.last = Absent THEN product.pneto
                                  ELSE product.last)

\* strings ObjectId() accepts: the ids of the catalog and one id whose
\* product is not in the collection
ObjectIds == {Products[s].id : s \in DOMAIN Products} \cup {"oid_GONE"}

\* prod_col.find_one({"_id": oid})
find_product_by_id(oid) ==
    IF \E s \in DOMAIN Products : Products[s].id = oid
    THEN Some([sku |-> CHOOSE s \in DOMAIN Products : Products[s].id = oid,
               doc |-> Products[CHOOSE s \in DOMAIN Products : Products[s].id = oid]])
    ELSE None

ZeroLine(pid) == [sku |-> "", productId |-> pid, unit_cost |-> 0, qty_eff |-> 0, subtotal |-> 0]

\* the breakdown line of one stored component
ValueLine(comp, cost_method) ==
    IF comp.productId \notin ObjectIds THEN ZeroLine(comp.productId)
    ELSE IF find_product_by_id(comp.productId) = None THEN ZeroLine(comp.productId)
    ELSE LET prod == find_product_by_id(comp.productId)[1]
             qty_eff == comp.cantidadPorBase * (100 + comp.merma_pct)
             unit_cost == get_unit_cost(prod.doc, cost_method)
         IN  [sku |-> prod.sku, productId |-> comp.productId, unit_cost |-> unit_cost,
              qty_eff |-> qty_eff, subtotal |-> qty_eff * unit_cost]

\* the warnings one stored component (the i-th) appends
ValueWarnings(comp, i, cost_method) ==
    IF comp.productId \notin ObjectIds
    THEN << [kind |-> "productId invalido", i |-> i] >>
    ELSE IF find_product_by_id(comp.productId) = None
    THEN << [kind |-> "productId no encontrado", i |-> i] >>
    ELSE IF get_unit_cost(find_product_by_id(comp.productId)[1].doc, cost_method) = 0
    THEN << [kind |-> "sin costo", i |-> i] >>
    ELSE << >>

RECURSIVE WarningsFrom(_, _, _)
WarningsFrom(componentes, i, cost_method) ==
    IF i > Len(componentes) THEN << >>
    ELSE ValueWarnings(componentes[i], i, cost_method)
            \o WarningsFrom(componentes, i + 1, cost_method)

RECURSIVE SumSubtotals(_, _)
\* sum(x["subtotal"] for x in breakdown), from line i on
SumSubtotals(breakdown, i) ==
    IF i > Len(breakdown) THEN 0
    ELSE breakdown[i].subtotal + SumSubtotals(breakdown, i + 1)

\* a process cost that also charges a catalog process (700 per processId)
ProcessCost_CatalogToo(ver) ==
    IF IsSet(ver.procesoEspecial_costo)
    THEN Hundredths * Hundredths * ver.procesoEspecial_costo[1]
    ELSE IF IsSet(ver.processId) THEN Hundredths * Hundredths * 700
    ELSE 0

\* step 3: the inline special-process cost when the version stores one
ProcessCost(ver) ==
    IF IsSet(ver.procesoEspecial_costo)
    THEN Hundredths * Hundredths * ver.procesoEspecial_costo[1]
    ELSE 0

NoValuation ==
    [skuPT |-> "", version |-> 0, currency |-> "", breakdown |-> << >>,
     process_cost |-> 0, total |-> 0, warnings |-> << >>]

\* a valuation that leaves unresolved components out of the breakdown
preview_valuation_SkipUnresolved(store, skuPT, version, cost_method, currency) ==
    LET pt == get_pt_by_sku(skuPT)
        rid == find_by_pt_id(store, pt[1].id)
        idx == VersionIndex(store[rid].versiones, version)
        ver == store[rid].versiones[idx]
        known == SelectSeq(ver.componentes,
                           LAMBDA c : /\ c.productId \in ObjectIds
                                      /\ IsSet(find_product_by_id(c.productId)))
        breakdown == [i \in 1..Len(known) |-> ValueLine(known[i], cost_method)]
    IN  IF pt = None THEN [status |-> "PT no encontrado", res |-> NoValuation]
        ELSE IF rid = 0 THEN [status |-> "Receta no encontrada", res |-> NoValuation]
        ELSE IF idx = 0 THEN [status |-> "Version no encontrada", res |-> NoValuation]
        ELSE [status |-> "ok",
              res |-> [skuPT |-> skuPT, version |-> version, currency |-> currency,
                       breakdown |-> breakdown,
                       process_cost |-> ProcessCost(ver),
                       total |-> SumSubtotals(breakdown, 1) + ProcessCost(ver),
                       warnings |-> WarningsFrom(ver.componentes, 1, cost_method)]]

preview_valuation(store, skuPT, version, cost_method, currency) ==
    LET pt == get_pt_by_sku(skuPT)
        rid == find_by_pt_id(store, pt[1].id)
        idx == VersionIndex(store[rid].versiones, version)
        ver == store[rid].versiones[idx]
        breakdown == [i \in 1..Len(ver.componentes) |->
                        ValueLine(ver.componentes[i], cost_method)]
    IN  IF pt = None THEN [status |-> "PT no encontrado", res |-> NoValuation]
        ELSE IF rid = 0 THEN [status |-> "Receta no encontrada", res |-> NoValuation]
        ELSE IF idx = 0 THEN [status |-> "Version no encontrada", res |-> NoValuation]
        ELSE [status |-> "ok",
              res |-> [skuPT |-> skuPT, version |-> version, currency |-> currency,
                       breakdown |-> breakdown,
                       process_cost |-> ProcessCost(ver),
                       total |-> SumSubtotals(breakdown, 1) + ProcessCost(ver),
                       warnings |-> WarningsFrom(ver.componentes, 1, cost_method)]]

\* value_version: the preview, whatever persist says; returns [store, out]
value_version(store, skuPT, version, cost_method, currency, persist) ==
    [store |-> store,
     out |-> preview_valuation(store, skuPT, version, cost_method, currency)]

(* ------------------------------- inputs -------------------------------- *)
Comp(sku, qty, unidad, merma) ==
    [skuMP |-> sku, cantidadPorBase |-> qty, unidad |-> unidad, mermaPct |-> merma]

OneComp == <<Comp("MP1", 10, "kg", 2)>>

ComponentInputs ==
    { OneComp,
      <<Comp("MP1", 10, "kg", 2), Comp("MP1", 10, "g", 5)>>,
      <<Comp("ZZ9", 10, "kg", 2)>> }

Proceso(code, nombre, costo) ==
    [processCodigo |-> code, procesoEspecialNombre |-> nombre,
     procesoEspecialCosto |-> costo]

ProcesoInputs ==
    { None,
      Some(Proceso(Some("PROC-ABC"), None, None)),
      Some(Proceso(Some("PROC-X"), None, None)),
      Some(Proceso(None, Some("esp"), Some(5))),
      Some(Proceso(Some("PROC-ABC"), Some("esp"), Some(5))) }

VersionIn(n, estado, marcar, proceso, comps) ==
    [numero |-> n, estado |-> estado, marcarVigente |-> marcar, baseQty |-> 1,
     proceso |-> proceso, componentes |-> comps]

\* RecetaVersionIn payloads that differ in number, state and "mark current"
LifecyclePayloads ==
    { VersionIn(n, e, m, None, OneComp) :
        n \in 1..MaxVersion, e \in Estados, m \in BOOLEAN }

\* RecetaVersionIn payloads that differ in process and components
ContentPayloads ==
    { VersionIn(n, "borrador", FALSE, p, OneComp) :
        n \in 1..MaxVersion, p \in ProcesoInputs }
    \cup
    { VersionIn(n, "borrador", FALSE, None, c) :
        n \in 1..MaxVersion, c \in ComponentInputs }

BadSkus == {"MP1", "ZZ9"}

\* CreateRecetaIn payloads
CreateWith(payloads) ==
    { [skuPT |-> "PT1", vigenteVersion |-> None, version |-> v] : v \in payloads }
    \cup
    { [skuPT |-> "PT1", vigenteVersion |-> vv,
       version |-> VersionIn(1, "borrador", FALSE, None, OneComp)] :
        vv \in {Some(1), Some(MaxVersion + 1)} }
    \cup
    { [skuPT |-> s, vigenteVersion |-> None,
       version |-> VersionIn(1, "borrador", FALSE, None, OneComp)] : s \in BadSkus }

AddWith(payloads) ==
    { <<"PT1", v>> : v \in payloads }
    \cup { <<s, VersionIn(1, "borrador", FALSE, None, OneComp)>> : s \in BadSkus }

\* (sku, version number) of set-current, disable-specific, update, replace
VersionRefs ==
    { <<"PT1", n>> : n \in 1..(MaxVersion + 1) } \cup { <<s, 1>> : s \in BadSkus }

EmptyBody == [estado |-> None, baseQty |-> None, proceso |-> None, componentes |-> None]

\* UpdateRecetaVersionIn bodies that set the state
LifecycleBodies == { [EmptyBody EXCEPT !.estado = Some(e)] : e \in Estados }

\* UpdateRecetaVersionIn bodies that set process and/or components
ContentBodies ==
    { [EmptyBody EXCEPT !.proceso = p] : p \in ProcesoInputs \ {None} }
    \cup { [EmptyBody EXCEPT !.componentes = Some(c)] : c \in ComponentInputs }
    \cup { [EmptyBody EXCEPT !.proceso = Some(Proceso(None, Some("esp"), Some(5))),
                             !.componentes = Some(OneComp)],
           EmptyBody }

EmptyRow ==
    [sku_PT |-> "", version |-> "", estado |-> "", marcar_vigente |-> "",
     base_qty |-> "", sku_MP |-> "", cantidad_por_base |-> "", unidad_MP |-> "",
     merma_pct |-> "", process_codigo |-> "", process_especial_nombre |-> "",
     process_especial_costo |-> "", fecha_publicacion |-> ""]

Row(sku, ver, estado, marcar, mp) ==
    [EmptyRow EXCEPT !.sku_PT = sku, !.version = ver, !.estado = estado,
                     !.marcar_vigente = marcar, !.sku_MP = mp,
                     !.cantidad_por_base = "10", !.unidad_MP = "kg", !.merma_pct = "2"]

\* CSV files (after _clean_row) uploaded to /import/csv:stage
LifecycleUploads ==
    { << Row("PT1", "1", "Vigente", "", "MP1"),
         Row("PT1", "2", "obsoleta", "TRUE", "MP1") >>,
      << Row("PT1", "2", "vigente", "", "MP1"),
         Row("PT1", "1", "", "true", "MP1"),
         Row("ZZ9", "1", "", "", "MP1"),
         Row("", "", "", "", "MP1"),
         Row("PT1", "", "", "", "MP2"),
         Row("", "1", "", "", "MP2") >> }

ContentUploads ==
    { << Row("PT1", "1", "", "", "MP1"), Row("PT1", "1", "", "", "MP1") >>,
      << [Row("PT1", "1", "", "", "MP1") EXCEPT
            !.process_codigo = "PROC-ABC", !.process_especial_nombre = "esp",
            !.process_especial_costo = "5"],
         [Row("PT1", "2", "", "", "MP1") EXCEPT
            !.process_codigo = "PROC-X", !.process_especial_nombre = "esp",
            !.process_especial_costo = "5"] >> }

BatchIds == 1..MaxBatches

\* The requests one specification draws from; batches: the batch ids its
\* uploads may take; track: whether the reply of the last request is kept
\* in resp
Profile(payloads, bodies, uploads, track) ==
    [create |-> CreateWith(payloads), add |-> AddWith(payloads),
     bodies |-> bodies, comps |-> ComponentInputs, uploads |-> uploads,
     batches |-> BatchIds, track |-> track]

AllRequests ==
    Profile(LifecyclePayloads \cup ContentPayloads,
            LifecycleBodies \cup ContentBodies,
            LifecycleUploads \cup ContentUploads, FALSE)

\* lifecycle requests keep one staged batch at a time
LifecycleRequests ==
    [Profile(LifecyclePayloads, LifecycleBodies, LifecycleUploads, TRUE)
        EXCEPT !.comps = {OneComp, <<Comp("ZZ9", 10, "kg", 2)>>},
               !.batches = {CHOOSE b \in BatchIds : \A c \in BatchIds : b <= c}]

\* component lists with a repeated material, a product that is no MP, and
\* an unknown sku after a known one
RepeatedComp ==
    <<Comp("MP1", 10, "kg", 2), Comp("MP2", 1, "g", 0), Comp("MP1", 5, "g", 5)>>

ComponentLists ==
    { OneComp, RepeatedComp, <<Comp("PT1", 1, "un", 0)>>,
      <<Comp("MP1", 10, "kg", 2), Comp("ZZ9", 1, "kg", 0)>> }

\* RecetaVersionIn payloads that differ in process and component list
VersionContents ==
    { VersionIn(n, "borrador", FALSE, pc_[1], pc_[2]) :
        n \in 1..MaxVersion,
        pc_ \in { <<None, OneComp>>,
                  <<Some(Proceso(Some("PROC-ABC"), None, None)), RepeatedComp>>,
                  <<Some(Proceso(None, Some("esp"), Some(5))), <<Comp("PT1", 1, "un", 0)>> >>,
                  <<Some(Proceso(Some("PROC-X"), Some("esp"), Some(5))), OneComp>>,
                  <<None, <<Comp("MP1", 10, "kg", 2), Comp("ZZ9", 1, "kg", 0)>> >> } }

\* UpdateRecetaVersionIn bodies: every choice of supplied and omitted fields
\* among baseQty, proceso and componentes
FieldBodies ==
    { [estado |-> None, baseQty |-> b, proceso |-> p, componentes |-> c] :
        b \in {None, Some(2)},
        p \in { None, Some(Proceso(Some("PROC-ABC"), None, None)),
                Some(Proceso(Some("PROC-X"), None, None)),
                Some(Proceso(None, Some("esp"), Some(5))) },
        c \in { None, Some(RepeatedComp),
                Some(<<Comp("MP1", 10, "kg", 2), Comp("ZZ9", 1, "kg", 0)>>) } }

\* a CSV file with two groups: one repeats a material and gives base_qty 0,
\* the other gives an unknown process code next to an inline process and
\* an unknown material
ComponentUploads ==
    { << [Row("PT1", "1", "", "", "MP1") EXCEPT !.base_qty = "0"],
         [Row("PT1", "1", "", "", "MP2") EXCEPT
            !.cantidad_por_base = "1", !.unidad_MP = "g", !.merma_pct = "0"],
         [Row("PT1", "1", "", "", "MP1") EXCEPT
            !.cantidad_por_base = "5", !.unidad_MP = "g", !.merma_pct = "5"],
         [Row("PT1", "2", "", "", "MP1") EXCEPT
            !.process_codigo = "PROC-X", !.process_especial_nombre = "esp",
            !.process_especial_costo = "5"],
         Row("PT1", "2", "", "", "ZZ9") >> }

\* requests that write the contents of versions, with the reply observable
ContentRequests ==
    [Profile(VersionContents, FieldBodies, ComponentUploads, TRUE)
        EXCEPT !.create = { [skuPT |-> "PT1", vigenteVersion |-> None, version |-> v] :
                              v \in VersionContents },
               !.comps = ComponentLists,
               !.batches = {CHOOSE b \in BatchIds : \A c \in BatchIds : b <= c}]

\* CSV files for promote: one whose first three groups fail (unknown PT,
\* unparsable date, no known sku_MP) before a good group, one whose groups
\* give a process code next to an inline process
ImportUploads ==
    { << Row("ZZ9", "1", "", "", "MP1"),
         [Row("PT1", "1", "", "", "MP1") EXCEPT !.fecha_publicacion = "nope"],
         Row("PT1", "5", "", "", "ZZ9"),
         Row("PT1", "2", "", "true", "MP1"),
         Row("PT1", "2", "", "", "ZZ9") >>,
      << [Row("PT1", "1", "", "", "MP1") EXCEPT
            !.process_codigo = "PROC-X", !.process_especial_nombre = "esp",
            !.process_especial_costo = "5"],
         [Row("PT1", "2", "vigente", "true", "MP1") EXCEPT
            !.process_codigo = "PROC-ABC", !.process_especial_nombre = "esp",
            !.process_especial_costo = "5"] >> }

\* requests of the CSV import next to create and add-version of drafts
ImportRequests ==
    Profile({ VersionIn(n, "borrador", m, None, OneComp) :
                n \in 1..MaxVersion, m \in BOOLEAN },
            {EmptyBody}, ImportUploads, TRUE)

\* versions without a process, with a catalog process, with an inline one
ValuePayloads ==
    { VersionIn(n, "borrador", FALSE, pc_[1], pc_[2]) :
        n \in 1..MaxVersion,
        pc_ \in { <<None, <<Comp("MP1", 10, "kg", 0)>> >>,
                  <<Some(Proceso(Some("PROC-ABC"), None, None)), RepeatedComp>>,
                  <<Some(Proceso(None, Some("esp"), Some(5))),
                    <<Comp("MP3", 2, "kg", 5), Comp("MP4", 1, "un", 0)>> >>,
                  <<None, <<Comp("MP5", 3, "kg", 10), Comp("PT1", 1, "un", 0)>> >> } }

ValueRequests ==
    [Profile(ValuePayloads, {EmptyBody}, {}, TRUE)
        EXCEPT !.create = { [skuPT |-> "PT1", vigenteVersion |-> None, version |-> v] :
                              v \in ValuePayloads }]

\* a recipe document the handlers did not write (the collection is shared
\* with other writers): one component resolves, one has a productId that is
\* no ObjectId, one names a product that is not in the catalog
LegacyStore ==
    << [productPTId |-> Products["PT1"].id,
        vigenteVersion |-> None,
        versiones |->
            << [version |-> 1, estado |-> "borrador", base_qty |-> 1,
                processId |-> None,
                procesoEspecial_nombre |-> Some("esp"),
                procesoEspecial_costo |-> Some(5),
                componentes |->
                    << [productId |-> "oid_MP1", cantidadPorBase |-> 10,
                        unidad |-> "kg", merma_pct |-> 2],
                       [productId |-> "not-an-oid", cantidadPorBase |-> 4,
                        unidad |-> "kg", merma_pct |-> 0],
                       [productId |-> "oid_GONE", cantidadPorBase |-> 6,
                        unidad |-> "un", merma_pct |-> 1] >>] >>] >>

Currencies == {"CLP"}

(* ------------------------- request handlers ---------------------------- *)
Workers == {1, 2}

Idle == [w \in Workers |-> "idle"]

NoLoc == [w \in Workers |-> [rid |-> 0, n |-> 0, prev |-> None, status |-> "none"]]

Reply(op, status) == [op |-> op, status |-> status, res |-> ZeroRes]

Init ==
    /\ recipes = <<>>
    /\ staging = <<>>
    /\ resp = Reply("none", "ok")
    /\ pc = Idle
    /\ loc = NoLoc

Create(P) ==
    \E p \in P.create :
        /\ recipes' = create_recipe(recipes, p).store
        /\ resp' = IF P.track
                   THEN Reply("create_recipe", create_recipe(recipes, p).status)
                   ELSE resp
        /\ UNCHANGED <<staging, pc, loc>>

AddVersion(P) ==
    \E a \in P.add :
        /\ recipes' = add_version(recipes, a[1], a[2]).store
        /\ resp' = IF P.track
                   THEN Reply("add_version", add_version(recipes, a[1], a[2]).status)
                   ELSE resp
        /\ UNCHANGED <<staging, pc, loc>>

SetVigente(P) ==
    \E a \in VersionRefs :
        /\ recipes' = set_vigente(recipes, a[1], a[2]).store
        /\ resp' = IF P.track
                   THEN Reply("set_vigente", set_vigente(recipes, a[1], a[2]).status)
                   ELSE resp
        /\ UNCHANGED <<staging, pc, loc>>

DisableCurrent(P) ==
    \E sku \in {"PT1"} \cup BadSkus :
        /\ recipes' = disable_current_vigente(recipes, sku).store
        /\ resp' = IF P.track
                   THEN Reply("disable_current_vigente",
                              disable_current_vigente(recipes, sku).status)
                   ELSE resp
        /\ UNCHANGED <<staging, pc, loc>>

DisableSpecific(P) ==
    \E a \in VersionRefs :
        /\ recipes' = disable_specific_version(recipes, a[1], a[2]).store
        /\ resp' = IF P.track
                   THEN Reply("disable_specific_version",
                              disable_specific_version(recipes, a[1], a[2]).status)
                   ELSE resp
        /\ UNCHANGED <<staging, pc, loc>>

UpdateVersion(P) ==
    \E a \in VersionRefs, body \in P.bodies :
        /\ recipes' = update_version_full(recipes, a[1], a[2], body).store
        /\ resp' = IF P.track
                   THEN Reply("update_version_full",
                              update_version_full(recipes, a[1], a[2], body).status)
                   ELSE resp
        /\ UNCHANGED <<staging, pc, loc>>

ReplaceComponentes(P) ==
    \E a \in VersionRefs, c \in P.comps :
        /\ recipes' = replace_componentes(recipes, a[1], a[2], c).store
        /\ resp' = IF P.track
                   THEN Reply("replace_componentes",
                              replace_componentes(recipes, a[1], a[2], c).status)
                   ELSE resp
        /\ UNCHANGED <<staging, pc, loc>>

\* POST /import/csv:stage with a fresh batch id
Stage(P) ==
    \E rows \in P.uploads, b \in P.batches :
        /\ \A i \in 1..Len(staging) : staging[i].batch_id # b
        /\ staging' = stage_insert_rows(staging, rows, b)
        /\ resp' = IF P.track
                   THEN [op |-> "stage", status |-> "ok", res |-> StageReply(rows)]
                   ELSE resp
        /\ UNCHANGED <<recipes, pc, loc>>

\* DELETE /import/csv:stage/{batch_id}
StageClear(P) ==
    \E b \in P.batches :
        /\ staging' = SelectSeq(staging, LAMBDA d : d.batch_id # b)
        /\ resp' = IF P.track THEN Reply("stage_clear", "ok") ELSE resp
        /\ UNCHANGED <<recipes, pc, loc>>

\* a promote that deletes the rows of its batch once a real run is over
Promote_ConsumesBatch(P) ==
    \E b \in P.batches, overwrite_version \in BOOLEAN, dry_run \in BOOLEAN :
        /\ recipes' = promote_staging_batch(recipes, staging, b,
                                            overwrite_version, dry_run).store
        /\ resp' = IF P.track
                   THEN [op |-> "promote_staging_batch", status |-> "ok",
                         res |-> promote_staging_batch(recipes, staging, b,
                                                       overwrite_version, dry_run).res]
                   ELSE resp
        /\ staging' = IF dry_run THEN staging
                      ELSE SelectSeq(staging, LAMBDA d : d.batch_id # b)
        /\ UNCHANGED <<pc, loc>>

Promote(P) ==
    \E b \in P.batches, overwrite_version \in BOOLEAN, dry_run \in BOOLEAN :
        /\ recipes' = promote_staging_batch(recipes, staging, b,
                                            overwrite_version, dry_run).store
        /\ resp' = IF P.track
                   THEN [op |-> "promote_staging_batch", status |-> "ok",
                         res |-> promote_staging_batch(recipes, staging, b,
                                                       overwrite_version, dry_run).res]
                   ELSE resp
        /\ UNCHANGED <<staging, pc, loc>>

Requests(P) ==
    \/ Create(P)
    \/ AddVersion(P)
    \/ SetVigente(P)
    \/ DisableCurrent(P)
    \/ DisableSpecific(P)
    \/ UpdateVersion(P)
    \/ ReplaceComponentes(P)
    \/ Stage(P)
    \/ StageClear(P)
    \/ Promote(P)

Next == Requests(AllRequests)

\* every request of the recipe engine, one at a time
Spec == Init /\ [][Next]_vars

NextReply == Requests(LifecycleRequests)

\* the same handlers with the last reply observable
SpecReply == Init /\ [][NextReply]_vars

NextContent ==
    \/ Create(ContentRequests)
    \/ AddVersion(ContentRequests)
    \/ UpdateVersion(ContentRequests)
    \/ ReplaceComponentes(ContentRequests)
    \/ Stage(ContentRequests)
    \/ StageClear(ContentRequests)
    \/ Promote(ContentRequests)

\* the handlers that write version contents, with the last reply observable
SpecContent == Init /\ [][NextContent]_vars

NextImport ==
    \/ Create(ImportRequests)
    \/ AddVersion(ImportRequests)
    \/ Stage(ImportRequests)
    \/ StageClear(ImportRequests)
    \/ Promote(ImportRequests)

\* the CSV import (stage, clear, promote) on stores that create and
\* add-version filled, with the last reply observable
SpecImport == Init /\ [][NextImport]_vars

(* ------------------------------ valuation requests ---------------------- *)
InitValue ==
    /\ recipes \in {<<>>, LegacyStore}
    /\ staging = <<>>
    /\ resp = Reply("none", "ok")
    /\ pc = Idle
    /\ loc = NoLoc

ValueReply(out, cost_method, persist) ==
    [op |-> "value_version", status |-> out.status, res |-> out.res,
     req |-> [cost_method |-> cost_method, persist |-> persist]]

\* POST /{skuPT}/versions/{version}/valorizar:preview
ValuePreview ==
    \E a \in VersionRefs, cost_method \in CostMethods, currency \in Currencies :
        LET r == value_version(recipes, a[1], a[2], cost_method, currency, FALSE)
        IN  /\ recipes' = r.store
            /\ resp' = ValueReply(r.out, cost_method, FALSE)
            /\ UNCHANGED <<staging, pc, loc>>

\* POST /{skuPT}/versions/{version}/valorizar
ValuePersist ==
    \E a \in VersionRefs, currency \in Currencies :
        LET r == value_version(recipes, a[1], a[2], "pneto", currency, TRUE)
        IN  /\ recipes' = r.store
            /\ resp' = ValueReply(r.out, "pneto", TRUE)
            /\ UNCHANGED <<staging, pc, loc>>

NextValue ==
    \/ Create(ValueRequests)
    \/ AddVersion(ValueRequests)
    \/ ValuePreview
    \/ ValuePersist

\* create, add-version and the two valuation endpoints, with the last reply
\* observable
SpecValue == InitValue /\ [][NextValue]_vars

(* ----------------- two set_vigente requests, interleaved ---------------- *)
Draft(n) == VersionIn(n, "borrador", FALSE, None, OneComp)

\* stores the sequential handlers leave: versions 1..MaxVersion, all drafts
\* and no current version, or version 1 current
RECURSIVE WithDrafts(_, _)
WithDrafts(store, n) ==
    IF n > MaxVersion THEN store
    ELSE WithDrafts(add_version(store, "PT1", Draft(n)).store, n + 1)

ConcStores ==
    { WithDrafts(create_recipe(<<>>,
                    [skuPT |-> "PT1", vigenteVersion |-> None, version |-> v]).store, 2) :
        v \in { Draft(1), VersionIn(1, "vigente", TRUE, None, OneComp) } }

InitConc ==
    /\ recipes \in ConcStores
    /\ staging = <<>>
    /\ resp = Reply("none", "ok")
    /\ pc = Idle
    /\ loc = NoLoc

\* steps 1 of set_vigente: the reads (product, recipe, version list)
SvRead(w) ==
    /\ pc[w] = "idle"
    /\ \E n \in 1..(MaxVersion + 1) :
        LET pt == get_pt_by_sku("PT1")
            rid == find_by_pt_id(recipes, pt[1].id)
        IN  IF rid = 0 \/ ~VersionExists(recipes[rid].versiones, n)
            THEN /\ pc' = [pc EXCEPT ![w] = "done"]
                 /\ loc' = [loc EXCEPT ![w] = [rid |-> rid, n |-> n, prev |-> None,
                                               status |-> "La version no existe"]]
            ELSE /\ pc' = [pc EXCEPT ![w] = "target"]
                 /\ loc' = [loc EXCEPT ![w] = [rid |-> rid, n |-> n,
                                               prev |-> recipes[rid].vigenteVersion,
                                               status |-> "running"]]
    /\ UNCHANGED <<recipes, staging, resp>>

\* step 2: mark the target 'vigente'
SvTarget(w) ==
    /\ pc[w] = "target"
    /\ recipes' = update_version_estado(recipes, loc[w].rid, loc[w].n, "vigente")
    /\ pc' = [pc EXCEPT ![w] = "prev"]
    /\ UNCHANGED <<staging, resp, loc>>

\* step 3: mark the previously read current version 'obsoleta'
SvPrev(w) ==
    /\ pc[w] = "prev"
    /\ recipes' = IF IsSet(loc[w].prev) /\ loc[w].prev[1] # loc[w].n
                  THEN update_version_estado(recipes, loc[w].rid, loc[w].prev[1], "obsoleta")
                  ELSE recipes
    /\ pc' = [pc EXCEPT ![w] = "meta"]
    /\ UNCHANGED <<staging, resp, loc>>

\* step 4: set vigenteVersion
SvMeta(w) ==
    /\ pc[w] = "meta"
    /\ recipes' = set_recipe_meta(recipes, loc[w].rid, Some(loc[w].n))
    /\ pc' = [pc EXCEPT ![w] = "done"]
    /\ loc' = [loc EXCEPT ![w].status = "ok"]
    /\ UNCHANGED <<staging, resp>>

NextConc ==
    \E w \in Workers :
        \/ SvRead(w)
        \/ SvTarget(w)
        \/ SvPrev(w)
        \/ SvMeta(w)

SpecConc == InitConc /\ [][NextConc]_vars

(* ------- two create_recipe / promote requests on one product, interleaved ------ *)
\* step 5 of promote as two store operations: the outcome is decided from the
\* document find_one returned (seenRid, and seenIdx in its version list),
\* the write goes to the store as it is when the write runs
PromoteOutcomeOf(seenRid, seenIdx, overwrite_version) ==
    IF seenRid = 0 THEN "created"
    ELSE IF seenIdx > 0 /\ ~overwrite_version THEN "rejected"
    ELSE IF seenIdx > 0 THEN "replaced"
    ELSE "appended"

PromoteApply(store, ptId, seenRid, seenIdx, vdoc, marcar_vigente, overwrite_version) ==
    LET outcome == PromoteOutcomeOf(seenRid, seenIdx, overwrite_version)
    IN  IF outcome = "created"
        THEN insert_recipe(store,
                [productPTId |-> ptId,
                 vigenteVersion |-> IF marcar_vigente THEN Some(vdoc.version) ELSE None,
                 versiones |-> <<vdoc>>])
        ELSE IF outcome = "rejected" THEN store
        ELSE IF outcome = "replaced"
        THEN [store EXCEPT ![seenRid].versiones[seenIdx] = vdoc]
        ELSE [store EXCEPT
                ![seenRid].versiones = Append(@, vdoc),
                ![seenRid].vigenteVersion = IF marcar_vigente
                                            THEN Some(vdoc.version) ELSE @]

\* the (product, version) both requests target
RaceVersion == 1

\* the one-group batch of worker w: the workers differ in the quantity
RaceRows(w, marcar) ==
    << [Row("PT1", "1", "", marcar, "MP1") EXCEPT
            !.cantidad_por_base = IF w = 1 THEN "10" ELSE "5"] >>

RaceVersionDoc(w, marcar) == PromoteVersionDoc(RaceRows(w, marcar), RaceVersion)

\* the CreateRecetaIn of worker w
RacePayload(w) ==
    [skuPT |-> "PT1", vigenteVersion |-> None,
     version |-> VersionIn(RaceVersion, "borrador", FALSE, None,
                           <<Comp("MP1", IF w = 1 THEN 10 ELSE 5, "kg", 2)>>)]

\* stores the sequential handlers leave: no recipe, a recipe without the
\* version, a recipe with it
RaceStores ==
    { <<>>,
      create_recipe(<<>>, [skuPT |-> "PT1", vigenteVersion |-> None,
                           version |-> Draft(2)]).store,
      create_recipe(<<>>, [skuPT |-> "PT1", vigenteVersion |-> None,
                           version |-> Draft(RaceVersion)]).store,
      add_version(create_recipe(<<>>, [skuPT |-> "PT1", vigenteVersion |-> None,
                                       version |-> Draft(2)]).store,
                  "PT1", Draft(RaceVersion)).store }

RaceIdle ==
    [w \in Workers |-> [op |-> "none", rid |-> 0, idx |-> 0, doc |-> <<>>,
                        marcar |-> FALSE, overwrite |-> FALSE, status |-> "none"]]

InitRace ==
    /\ recipes \in RaceStores
    /\ staging = <<>>
    /\ resp = Reply("none", "ok")
    /\ pc = Idle
    /\ loc = RaceIdle

\* create_recipe up to "existing = find_by_pt_id(...)": Conflict when a
\* recipe is found, otherwise the document to insert is built
CrRead(w) ==
    /\ pc[w] = "idle"
    /\ LET pt == get_pt_by_sku(RacePayload(w).skuPT)
           rid == find_by_pt_id(recipes, pt[1].id)
       IN  IF rid # 0
           THEN /\ pc' = [pc EXCEPT ![w] = "done"]
                /\ loc' = [loc EXCEPT ![w] =
                            [@ EXCEPT !.op = "create_recipe", !.rid = rid,
                                      !.status = "La receta para este PT ya existe"]]
           ELSE /\ pc' = [pc EXCEPT ![w] = "insert"]
                /\ loc' = [loc EXCEPT ![w] =
                            [@ EXCEPT !.op = "create_recipe",
                                      !.doc = [productPTId |-> pt[1].id,
                                               vigenteVersion |-> InitialVigente(RacePayload(w)),
                                               versiones |-> <<BuildVersion(RacePayload(w).version)>>],
                                      !.status = "running"]]
    /\ UNCHANGED <<recipes, staging, resp>>

\* insert_recipe(receta_doc)
CrInsert(w) ==
    /\ pc[w] = "insert"
    /\ recipes' = insert_recipe(recipes, loc[w].doc)
    /\ pc' = [pc EXCEPT ![w] = "done"]
    /\ loc' = [loc EXCEPT ![w].status = "ok"]
    /\ UNCHANGED <<staging, resp>>

\* promote of the one-group batch up to "existing = RECIPES.find_one(...)"
\* and the computation of idx
PrRead(w) ==
    /\ pc[w] = "idle"
    /\ \E marcar \in {"", "true"}, overwrite_version \in BOOLEAN :
        LET rows_g == RaceRows(w, marcar)
            pt == get_pt_by_sku(rows_g[1].sku_PT)
            rid == find_by_pt_id(recipes, pt[1].id)
            idx == IF rid = 0 THEN 0 ELSE VersionIndex(recipes[rid].versiones, RaceVersion)
        IN  loc' = [loc EXCEPT ![w] =
                      [op |-> "promote_staging_batch", rid |-> rid, idx |-> idx,
                       doc |-> RaceVersionDoc(w, marcar),
                       marcar |-> to_bool(First(rows_g, "marcar_vigente")),
                       overwrite |-> overwrite_version, status |-> "running"]]
    /\ pc' = [pc EXCEPT ![w] = "write"]
    /\ UNCHANGED <<recipes, staging, resp>>

\* the insert_one / update_one of step 5 (none when the version is rejected)
PrWrite(w) ==
    /\ pc[w] = "write"
    /\ recipes' = PromoteApply(recipes, get_pt_by_sku("PT1")[1].id, loc[w].rid,
                               loc[w].idx, loc[w].doc, loc[w].marcar, loc[w].overwrite)
    /\ pc' = [pc EXCEPT ![w] = "done"]
    /\ loc' = [loc EXCEPT ![w].status =
                  PromoteOutcomeOf(loc[w].rid, loc[w].idx, loc[w].overwrite)]
    /\ UNCHANGED <<staging, resp>>

NextRace ==
    \E w \in Workers :
        \/ CrRead(w)
        \/ CrInsert(w)
        \/ PrRead(w)
        \/ PrWrite(w)

\* two requests, each a create_recipe or a promote, with their store
\* operations interleaved
SpecRace == InitRace /\ [][NextRace]_vars

(* =============================== claims ================================ *)
Vigentes(rec) == {i \in 1..Len(rec.versiones) : rec.versiones[i].estado = "vigente"}

\* C1: every recipe has at most one version whose state is 'vigente'
C1_AtMostOneVigente ==
    \A r \in 1..Len(recipes) : Cardinality(Vigentes(recipes[r])) <= 1

\* what C2 asks of the store `after` a successful set_vigente(n) on recipe rid of `before`
SetCurrentPost(before, after, rid, n) ==
    /\ Cardinality(Vigentes(after[rid])) = 1
    /\ \A i \in Vigentes(after[rid]) : after[rid].versiones[i].version = n
    /\ after[rid].vigenteVersion = Some(n)
    /\ \A i \in 1..Len(after[rid].versiones) :
          ( /\ IsSet(before[rid].vigenteVersion)
            /\ before[rid].vigenteVersion[1] # n
            /\ after[rid].versiones[i].version = before[rid].vigenteVersion[1] )
          => after[rid].versiones[i].estado = "obsoleta"

\* C2: from every reachable store, a successful set_vigente(P, V) leaves exactly
\* one 'vigente' version, namely V, vigenteVersion = V, and the version that
\* vigenteVersion referenced before (if another) 'obsoleta'
C2_SetCurrentExact ==
    \A a \in VersionRefs :
        LET out == set_vigente(recipes, a[1], a[2])
        IN  out.status = "ok" =>
                SetCurrentPost(recipes, out.store,
                               find_by_pt_id(recipes, get_pt_by_sku(a[1])[1].id), a[2])

\* C3: vigenteVersion, when set, is the number of a version of the recipe
C3_PointerReferencesVersion ==
    \A r \in 1..Len(recipes) :
        IsSet(recipes[r].vigenteVersion) =>
            VersionExists(recipes[r].versiones, recipes[r].vigenteVersion[1])

\* C4: no recipe holds two versions with the same version number
C4_VersionNumbersUnique ==
    \A r \in 1..Len(recipes) :
        \A i, j \in 1..Len(recipes[r].versiones) :
            recipes[r].versiones[i].version = recipes[r].versiones[j].version => i = j

\* a recipe that create, then add-version or promote, filled up to MaxVersion versions
C4_Witness ==
    \E r \in 1..Len(recipes) : Len(recipes[r].versiones) = MaxVersion

\* the state of every stored version before and after a step
EstadoBefore(r, i) == recipes[r].versiones[i].estado

EstadoAfter(r, i) == recipes'[r].versiones[i].estado

C6_ConcurrentSetCurrentAtomic ==
    ( /\ \A w \in Workers : pc[w] = "done" /\ loc[w].status = "ok"
      /\ loc[1].n # loc[2].n )
    => \A r \in 1..Len(recipes) :
          /\ Cardinality(Vigentes(recipes[r])) = 1
          /\ \A i \in Vigentes(recipes[r]) :
                recipes[r].vigenteVersion = Some(recipes[r].versiones[i].version)

HasInline(ver) == IsSet(ver.procesoEspecial_nombre) \/ IsSet(ver.procesoEspecial_costo)

\* C7: no stored version has both processId and an inline special process
C7_ProcessXor ==
    \A r \in 1..Len(recipes) : \A i \in 1..Len(recipes[r].versiones) :
        ~(IsSet(recipes[r].versiones[i].processId) /\ HasInline(recipes[r].versiones[i]))

\* a recipe with one version on a catalog process and one on an inline process
C7_Witness ==
    \E r \in 1..Len(recipes) : \E i, j \in 1..Len(recipes[r].versiones) :
        /\ IsSet(recipes[r].versiones[i].processId)
        /\ HasInline(recipes[r].versiones[j])

\* C8: create_recipe on a sku that is no PT, or on a PT that has a recipe,
\* fails and returns the store as it was
C8_CreateFailsClean ==
    \A p \in LifecycleRequests.create :
        LET pt == get_pt_by_sku(p.skuPT)
        IN  /\ pt = None =>
                create_recipe(recipes, p) = Result(recipes, "PT no encontrado")
            /\ (IsSet(pt) /\ \E r \in 1..Len(recipes) : recipes[r].productPTId = pt[1].id) =>
                create_recipe(recipes, p) =
                    Result(recipes, "La receta para este PT ya existe")

\* create_recipe has just been refused on a product that has its recipe
C8_Witness ==
    /\ resp = Reply("create_recipe", "La receta para este PT ya existe")
    /\ \E r \in 1..Len(recipes) : recipes[r].productPTId = Products["PT1"].id

\* C9: add_version fails and returns the store as it was when the product has
\* no recipe or the number is taken; when it succeeds the recipe has exactly
\* one more version and no other document changes
C9_AddVersionGuards ==
    \A a \in LifecycleRequests.add :
        LET pt == get_pt_by_sku(a[1])
            rid == find_by_pt_id(recipes, pt[1].id)
            out == add_version(recipes, a[1], a[2])
        IN  /\ (IsSet(pt) /\ rid = 0) => out = Result(recipes, "Receta no existe")
            /\ ( /\ IsSet(pt) /\ rid # 0
                 /\ \E i \in 1..Len(recipes[rid].versiones) :
                        recipes[rid].versiones[i].version = a[2].numero )
               => out = Result(recipes, "La version ya existe")
            /\ out.status = "ok" =>
                  /\ Len(out.store) = Len(recipes)
                  /\ Len(out.store[rid].versiones) = Len(recipes[rid].versiones) + 1
                  /\ \A r \in 1..Len(recipes) : r # rid => out.store[r] = recipes[r]

\* add_version has just been refused for a version number that exists
C9_Witness ==
    /\ resp = Reply("add_version", "La version ya existe")
    /\ \E r \in 1..Len(recipes) : Len(recipes[r].versiones) >= 1

\* C10: a successful add_version sets vigenteVersion to the new number when
\* marcarVigente is given and leaves it otherwise; every version stored
\* before is unchanged
C10_AddVersionFrame ==
    \A a \in LifecycleRequests.add :
        LET rid == find_by_pt_id(recipes, get_pt_by_sku(a[1])[1].id)
            out == add_version(recipes, a[1], a[2])
        IN  out.status = "ok" =>
              /\ out.store[rid].vigenteVersion =
                    IF a[2].marcarVigente THEN Some(a[2].numero)
                    ELSE recipes[rid].vigenteVersion
              /\ \A i \in 1..Len(recipes[rid].versiones) :
                    out.store[rid].versiones[i] = recipes[rid].versiones[i]

\* add_version has just moved vigenteVersion to the appended version while an
\* older version still is 'vigente'
C10_Witness ==
    /\ resp = Reply("add_version", "ok")
    /\ \E r \in 1..Len(recipes) :
          /\ Len(recipes[r].versiones) >= 2
          /\ recipes[r].vigenteVersion =
                Some(recipes[r].versiones[Len(recipes[r].versiones)].version)
          /\ recipes[r].versiones[1].estado = "vigente"

\* what C11 asks of the store `after` a successful disable of version n of recipe rid
DisablePost(before, after, rid, n) ==
    /\ Len(after) = Len(before)
    /\ \A r \in 1..Len(before) : r # rid => after[r] = before[r]
    /\ after[rid].productPTId = before[rid].productPTId
    /\ Len(after[rid].versiones) = Len(before[rid].versiones)
    /\ \A i \in 1..Len(before[rid].versiones) :
          after[rid].versiones[i] =
              IF before[rid].versiones[i].version = n
              THEN [before[rid].versiones[i] EXCEPT !.estado = "obsoleta"]
              ELSE before[rid].versiones[i]
    /\ after[rid].vigenteVersion =
          IF before[rid].vigenteVersion = Some(n) THEN None
          ELSE before[rid].vigenteVersion

\* C11: a successful disable (of the version vigenteVersion references, or of
\* an existing version number) makes that version 'obsoleta', removes
\* vigenteVersion exactly when it referenced that version, and changes nothing else
C11_DisableExact ==
    /\ \A sku \in {"PT1"} \cup BadSkus :
          LET out == disable_current_vigente(recipes, sku)
              rid == find_by_pt_id(recipes, get_pt_by_sku(sku)[1].id)
          IN  (out.status = "ok" /\ IsSet(recipes[rid].vigenteVersion)) =>
                  DisablePost(recipes, out.store, rid, recipes[rid].vigenteVersion[1])
    /\ \A a \in VersionRefs :
          LET out == disable_specific_version(recipes, a[1], a[2])
              rid == find_by_pt_id(recipes, get_pt_by_sku(a[1])[1].id)
          IN  out.status = "ok" => DisablePost(recipes, out.store, rid, a[2])

\* disable_specific_version has just made a version 'obsoleta' that
\* vigenteVersion did not reference, and vigenteVersion is still set
C11_Witness ==
    /\ resp = Reply("disable_specific_version", "ok")
    /\ \E r \in 1..Len(recipes) : \E i \in 1..Len(recipes[r].versiones) :
          /\ recipes[r].versiones[i].estado = "obsoleta"
          /\ IsSet(recipes[r].vigenteVersion)
          /\ recipes[r].vigenteVersion # Some(recipes[r].versiones[i].version)

\* C12: disable_current_vigente on a recipe without vigenteVersion returns the
\* store as it was, and a second disable_current_vigente in a row changes
\* nothing the first left
C12_DisableCurrentIdempotent ==
    \A sku \in {"PT1"} \cup BadSkus :
        LET once  == disable_current_vigente(recipes, sku)
            twice == disable_current_vigente(once.store, sku)
            rid   == find_by_pt_id(recipes, get_pt_by_sku(sku)[1].id)
        IN  /\ ( /\ IsSet(get_pt_by_sku(sku)) /\ rid # 0
                 /\ recipes[rid].vigenteVersion = None )
               => once = Result(recipes, "ok")
            /\ twice.store = once.store

\* disable_current_vigente has just answered on a recipe that has no
\* vigenteVersion and still holds a 'vigente' version
C12_Witness ==
    /\ resp = Reply("disable_current_vigente", "ok")
    /\ \E r \in 1..Len(recipes) :
          /\ recipes[r].vigenteVersion = None
          /\ Vigentes(recipes[r]) # {}

\* the fields of version document `after` that body omits equal those of `before`
OmittedKept(before, after, body) ==
    /\ after.version = before.version
    /\ body.estado = None => after.estado = before.estado
    /\ body.baseQty = None => after.base_qty = before.base_qty
    /\ body.proceso = None =>
          /\ after.processId = before.processId
          /\ after.procesoEspecial_nombre = before.procesoEspecial_nombre
          /\ after.procesoEspecial_costo = before.procesoEspecial_costo
    /\ body.componentes = None => after.componentes = before.componentes

\* the fields body supplies hold the supplied values
SuppliedWritten(after, body) ==
    /\ IsSet(body.estado) => after.estado = body.estado[1]
    /\ IsSet(body.baseQty) => after.base_qty = body.baseQty[1]

\* C13: update_version_full changes, on the targeted version, only the fields
\* the body supplies; omitted fields, the other versions and vigenteVersion
\* keep their values; a call that fails returns the store as it was, and it
\* fails when the recipe or the version does not exist
C13_UpdateFrame ==
    \A a \in VersionRefs, body \in FieldBodies \cup LifecycleBodies :
        LET pt  == get_pt_by_sku(a[1])
            rid == find_by_pt_id(recipes, pt[1].id)
            out == update_version_full(recipes, a[1], a[2], body)
        IN  /\ out.status # "ok" => out.store = recipes
            /\ ( \/ pt = None \/ rid = 0
                 \/ \A i \in 1..Len(recipes[rid].versiones) :
                        recipes[rid].versiones[i].version # a[2] )
               => out.status # "ok"
            /\ out.status = "ok" =>
                  /\ Len(out.store) = Len(recipes)
                  /\ \A r \in 1..Len(recipes) : r # rid => out.store[r] = recipes[r]
                  /\ out.store[rid].productPTId = recipes[rid].productPTId
                  /\ out.store[rid].vigenteVersion = recipes[rid].vigenteVersion
                  /\ Len(out.store[rid].versiones) = Len(recipes[rid].versiones)
                  /\ \A i \in 1..Len(recipes[rid].versiones) :
                        IF recipes[rid].versiones[i].version = a[2]
                        THEN /\ OmittedKept(recipes[rid].versiones[i],
                                            out.store[rid].versiones[i], body)
                             /\ SuppliedWritten(out.store[rid].versiones[i], body)
                        ELSE out.store[rid].versiones[i] = recipes[rid].versiones[i]

\* update_version_full has just answered on a recipe of two versions, one
\* with the baseQty only a body supplies and a process it kept
C13_Witness ==
    /\ resp = Reply("update_version_full", "ok")
    /\ \E r \in 1..Len(recipes) :
          /\ Len(recipes[r].versiones) = 2
          /\ \E i \in 1..2 :
                /\ recipes[r].versiones[i].base_qty = 2
                /\ HasInline(recipes[r].versiones[i])
                /\ Len(recipes[r].versiones[i].componentes) = 2

RECURSIVE QtySum(_, _, _)
\* the sum of the quantities of the first k entries of comps for material sku
QtySum(comps, sku, k) ==
    IF k = 0 THEN 0
    ELSE QtySum(comps, sku, k - 1)
         + (IF comps[k].skuMP = sku THEN comps[k].cantidadPorBase ELSE 0)

\* stored holds one component per material of comps: the summed quantity,
\* unit and waste of the first entry for it
Collapsed(comps, stored) ==
    /\ Len(stored) = Cardinality({comps[k].skuMP : k \in 1..Len(comps)})
    /\ \A k \in 1..Len(comps) :
          LET id == Products[comps[k].skuMP].id
              hit == {i \in 1..Len(stored) : stored[i].productId = id}
              k1 == CHOOSE j \in 1..Len(comps) :
                        /\ comps[j].skuMP = comps[k].skuMP
                        /\ \A h \in 1..(j - 1) : comps[h].skuMP # comps[k].skuMP
          IN  /\ Cardinality(hit) = 1
              /\ \A i \in hit :
                    /\ stored[i].cantidadPorBase = QtySum(comps, comps[k].skuMP, Len(comps))
                    /\ stored[i].unidad = comps[k1].unidad
                    /\ stored[i].merma_pct = comps[k1].mermaPct

\* the component entries a group of staged rows submits: its rows with a
\* sku_MP that has a product
RowsAsComps(rows_g) ==
    LET ok == SelectSeq(rows_g, LAMBDA r : r.sku_MP \in DOMAIN Products)
    IN  [i \in 1..Len(ok) |->
            Comp(ok[i].sku_MP, Numeric[ok[i].cantidad_por_base], ok[i].unidad_MP,
                 Numeric[ok[i].merma_pct])]

\* the version numbered n of the recipe of product ptId, <<>> when absent
StoredVersion(store, ptId, n) ==
    LET rid == find_by_pt_id(store, ptId)
    IN  IF rid = 0 THEN <<>>
        ELSE SelectSeq(store[rid].versiones, LAMBDA v : v.version = n)

\* C14: the component list a version is stored with, by create_recipe,
\* add_version, update_version_full, replace_componentes or promote, holds
\* each material once, with the summed quantity and the unit and waste of
\* the first entry
C14_ComponentsCollapse ==
    /\ \A p \in ContentRequests.create :
          LET out == create_recipe(recipes, p)
          IN  out.status = "ok" =>
                 Collapsed(p.version.componentes,
                           StoredVersion(out.store, Products[p.skuPT].id,
                                         p.version.numero)[1].componentes)
    /\ \A a \in ContentRequests.add :
          LET out == add_version(recipes, a[1], a[2])
          IN  out.status = "ok" =>
                 Collapsed(a[2].componentes,
                           StoredVersion(out.store, Products[a[1]].id,
                                         a[2].numero)[1].componentes)
    /\ \A a \in VersionRefs, c \in ContentRequests.comps :
          LET out == replace_componentes(recipes, a[1], a[2], c)
              upd == update_version_full(recipes, a[1], a[2],
                                         [EmptyBody EXCEPT !.componentes = Some(c)])
          IN  /\ out.status = "ok" =>
                    Collapsed(c, StoredVersion(out.store, Products[a[1]].id,
                                               a[2])[1].componentes)
              /\ upd.status = "ok" =>
                    Collapsed(c, StoredVersion(upd.store, Products[a[1]].id,
                                               a[2])[1].componentes)
    /\ \A b \in ContentRequests.batches :
          LET rows == StagedRows(staging, b)
              out == promote_staging_batch(recipes, staging, b, TRUE, FALSE)
          IN  \A g \in 1..Len(GroupKeys(rows)) :
                 LET key == GroupKeys(rows)[g]
                     comps == RowsAsComps(GroupRows(rows, key))
                 IN  (IsSet(get_pt_by_sku(key[1])) /\ comps # <<>>) =>
                        LET v == StoredVersion(out.store, Products[key[1]].id, key[2])
                        IN  Len(v) = 1 /\ Collapsed(comps, v[1].componentes)

\* promote has just created the recipe from a group that names MP1 twice:
\* one MP1 component with the summed quantity 15, and MP2
C14_Witness ==
    /\ resp.op = "promote_staging_batch" /\ resp.res.recetasCreadas = 1
    /\ \E r \in 1..Len(recipes) : \E i \in 1..Len(recipes[r].versiones) :
          LET cs == recipes[r].versiones[i].componentes
          IN  /\ Len(cs) = 2
              /\ cs[1].productId = Products["MP1"].id /\ cs[1].cantidadPorBase = 15
              /\ cs[1].unidad = "kg" /\ cs[1].merma_pct = 2

\* every entry of a component list names a product of type MP
AllRawMaterial(comps) ==
    \A k \in 1..Len(comps) :
        /\ comps[k].skuMP \in DOMAIN Products
        /\ Products[comps[k].skuMP].tipo = "MP"

\* C15: create_recipe, add_version, update_version_full with componentes and
\* replace_componentes succeed only when every component sku is a product of
\* type MP, and a call that fails returns the store as it was
C15_ComponentsAreRawMaterial ==
    /\ \A p \in ContentRequests.create :
          LET out == create_recipe(recipes, p)
          IN  /\ out.status = "ok" => AllRawMaterial(p.version.componentes)
              /\ out.status # "ok" => out.store = recipes
    /\ \A a \in ContentRequests.add :
          LET out == add_version(recipes, a[1], a[2])
          IN  /\ out.status = "ok" => AllRawMaterial(a[2].componentes)
              /\ out.status # "ok" => out.store = recipes
    /\ \A a \in VersionRefs, c \in ContentRequests.comps :
          LET out == replace_componentes(recipes, a[1], a[2], c)
              upd == update_version_full(recipes, a[1], a[2],
                                         [EmptyBody EXCEPT !.componentes = Some(c)])
          IN  /\ out.status = "ok" => AllRawMaterial(c)
              /\ out.status # "ok" => out.store = recipes
              /\ upd.status = "ok" => AllRawMaterial(c)
              /\ upd.status # "ok" => upd.store = recipes

\* C16: every stored version has a base quantity greater than 0
C16_BaseQtyPositive ==
    \A r \in 1..Len(recipes) : \A i \in 1..Len(recipes[r].versiones) :
        recipes[r].versiones[i].base_qty > 0

\* rows tagged with batch id b, as documents of the Staging Store
Tagged(rows, b) == [i \in 1..Len(rows) |-> [batch_id |-> b, row |-> rows[i]]]

\* C17 (as stated): stage drops a row, with one warning, only when the row
\* lacks both sku_PT and version; every other row is inserted with the batch
\* id and the count returned is the number of rows inserted
C17_StageDropsOnlyEmpty ==
    \A rows \in LifecycleRequests.uploads, b \in LifecycleRequests.batches :
        LET kept == SelectSeq(rows, LAMBDA r : ~(r.sku_PT = "" /\ r.version = ""))
        IN  /\ stage_insert_rows(staging, rows, b) = staging \o Tagged(kept, b)
            /\ StageReply(rows) =
                  [inserted |-> Len(kept), warnings |-> Len(rows) - Len(kept)]

\* C17 (amended): stage drops a row, with one warning, when the row lacks
\* sku_PT or lacks version; every other row is inserted with the batch id,
\* in order, and the count returned is the number of rows inserted
C17_StageDropsIncomplete ==
    \A rows \in LifecycleRequests.uploads, b \in LifecycleRequests.batches :
        LET kept == SelectSeq(rows, LAMBDA r : ~(r.sku_PT = "" \/ r.version = ""))
        IN  /\ stage_insert_rows(staging, rows, b) = staging \o Tagged(kept, b)
            /\ StageReply(rows) =
                  [inserted |-> Len(kept), warnings |-> Len(rows) - Len(kept)]

\* stage has just inserted three rows of a file and dropped three: one without
\* sku_PT and version, one without version, one without sku_PT
C17_Witness ==
    /\ resp.op = "stage"
    /\ resp.res = [inserted |-> 3, warnings |-> 3]
    /\ Len(staging) = 3
    /\ \A i \in 1..Len(staging) : staging[i].row.sku_PT # "" /\ staging[i].row.version # ""

\* a group that promote cannot build: unknown PT, unparsable publication
\* date, or no row whose sku_MP has a product
GroupFails(key, rows_g) ==
    \/ ~(key[1] \in DOMAIN Products /\ Products[key[1]].tipo = "PT")
    \/ \E i \in 1..Len(rows_g) :
          /\ rows_g[i].fecha_publicacion \notin {"", "2025-10-13", "13/10/2025"}
          /\ \A j \in 1..(i - 1) : rows_g[j].fecha_publicacion = ""
    \/ RowsAsComps(rows_g) = <<>>

\* the counters of promote that tell what was written
Outcome(res) ==
    <<res.recetasCreadas, res.recetasActualizadas, res.versionesAgregadas,
      res.versionesRechazadas, res.vigentesSeteadas>>

\* C18: a group of the batch that fails is skipped with an error or warning
\* and no write, and the other groups are written and counted exactly as
\* promote writes and counts them from the batch without that group
C18_PromoteGroupIsolation ==
    \A b \in ImportRequests.batches, overwrite_version \in BOOLEAN, dry_run \in BOOLEAN :
        LET rows == StagedRows(staging, b)
            full == promote_staging_batch(recipes, staging, b, overwrite_version, dry_run)
        IN  \A g \in 1..Len(GroupKeys(rows)) :
               LET key == GroupKeys(rows)[g]
                   rest == SelectSeq(staging,
                               LAMBDA d : ~(d.batch_id = b /\ RowKey(d.row) = key))
                   part == promote_staging_batch(recipes, rest, b,
                                                 overwrite_version, dry_run)
               IN  GroupFails(key, GroupRows(rows, key)) =>
                      /\ full.store = part.store
                      /\ Outcome(full.res) = Outcome(part.res)
                      /\ full.res.gruposProcesados = part.res.gruposProcesados + 1
                      /\ full.res.errores + full.res.warnings
                            > part.res.errores + part.res.warnings

\* promote has just processed a batch of four groups: three failed with
\* their errors and warning, the fourth created the recipe with version 2
C18_Witness ==
    /\ resp.op = "promote_staging_batch"
    /\ resp.res.gruposProcesados = 4
    /\ resp.res.errores >= 3
    /\ resp.res.recetasCreadas = 1
    /\ \E r \in 1..Len(recipes) :
          /\ Len(recipes[r].versiones) = 1
          /\ recipes[r].versiones[1].version = 2

\* C19: a group whose process code does not resolve gets a warning and its
\* version is stored with no process: no processId and no inline special
\* process, whatever inline values its rows carry
C19_UnknownProcessMeansNoProcess ==
    \A b \in ImportRequests.batches :
        LET rows == StagedRows(staging, b)
            out == promote_staging_batch(recipes, staging, b, TRUE, FALSE)
        IN  \A g \in 1..Len(GroupKeys(rows)) :
               LET key == GroupKeys(rows)[g]
                   rows_g == GroupRows(rows, key)
                   v == StoredVersion(out.store, Products[key[1]].id, key[2])
               IN  ( /\ ~GroupFails(key, rows_g)
                     /\ \E i \in 1..Len(rows_g) :
                           /\ rows_g[i].process_codigo \notin DOMAIN Processes \cup {""}
                           /\ \A j \in 1..(i - 1) : rows_g[j].process_codigo = "" )
                   => /\ out.res.warnings >= 1
                      /\ Len(v) = 1
                      /\ v[1].processId = None
                      /\ ~HasInline(v[1])

\* the counters and the store after promote handled the single group of
\* rows_g (key = <<sku_PT, version>>) on store `before`, set against the four
\* outcomes of C20
OneOutcome(before, out, key, rows_g, overwrite_version) ==
    LET ptId == Products[key[1]].id
        rid == find_by_pt_id(before, ptId)
        marcar == to_bool(First(rows_g, "marcar_vigente"))
        has == \E i \in 1..Len(before[rid].versiones) :
                  before[rid].versiones[i].version = key[2]
    IN  IF rid = 0
        THEN /\ Outcome(out.res) = <<1, 0, 0, 0, IF marcar THEN 1 ELSE 0>>
             /\ Len(out.store) = Len(before) + 1
             /\ \A r \in 1..Len(before) : out.store[r] = before[r]
             /\ out.store[Len(out.store)].productPTId = ptId
             /\ Len(out.store[Len(out.store)].versiones) = 1
             /\ out.store[Len(out.store)].versiones[1].version = key[2]
             /\ out.store[Len(out.store)].vigenteVersion =
                   IF marcar THEN Some(key[2]) ELSE None
        ELSE IF ~has
        THEN /\ out.res.versionesAgregadas = 1
             /\ out.res.recetasCreadas = 0 /\ out.res.recetasActualizadas = 0
             /\ out.res.versionesRechazadas = 0
             /\ Len(out.store) = Len(before)
             /\ Len(out.store[rid].versiones) = Len(before[rid].versiones) + 1
             /\ out.store[rid].versiones[Len(out.store[rid].versiones)].version = key[2]
             /\ \A i \in 1..Len(before[rid].versiones) :
                   out.store[rid].versiones[i] = before[rid].versiones[i]
        ELSE IF ~overwrite_version
        THEN /\ Outcome(out.res) = <<0, 0, 0, 1, 0>>
             /\ out.res.warnings >= 1
             /\ out.store = before
        ELSE /\ out.res.recetasActualizadas = 1
             /\ out.res.recetasCreadas = 0 /\ out.res.versionesAgregadas = 0
             /\ out.res.versionesRechazadas = 0
             /\ Len(out.store) = Len(before)
             /\ Len(out.store[rid].versiones) = Len(before[rid].versiones)
             /\ \A i \in 1..Len(before[rid].versiones) :
                   /\ out.store[rid].versiones[i].version = before[rid].versiones[i].version
                   /\ before[rid].versiones[i].version # key[2] =>
                         out.store[rid].versiones[i] = before[rid].versiones[i]

\* C20: in a promote that is no dry run, a group that builds has exactly one
\* outcome: recipe created (vigenteVersion set exactly when marcar_vigente,
\* and then counted), version appended, version rejected with a warning and
\* no write, or version replaced in place with as many versions as before
C20_PromoteOneOutcome ==
    \A b \in ImportRequests.batches, overwrite_version \in BOOLEAN :
        LET rows == StagedRows(staging, b)
        IN  \A g \in 1..Len(GroupKeys(rows)) :
               LET key == GroupKeys(rows)[g]
                   only == SelectSeq(staging,
                               LAMBDA d : d.batch_id = b /\ RowKey(d.row) = key)
                   out == promote_staging_batch(recipes, only, b,
                                                overwrite_version, FALSE)
               IN  ~GroupFails(key, GroupRows(rows, key)) =>
                      OneOutcome(recipes, out, key, GroupRows(rows, key),
                                 overwrite_version)

\* promote has just replaced version 1 in place and appended version 2 on a
\* recipe that held version 1 alone
C20_Witness ==
    /\ resp.op = "promote_staging_batch"
    /\ resp.res.recetasActualizadas = 1 /\ resp.res.versionesAgregadas = 1
    /\ \E r \in 1..Len(recipes) :
          /\ Len(recipes[r].versiones) = 2
          /\ recipes[r].versiones[1].version = 1
          /\ recipes[r].versiones[2].version = 2
          /\ recipes[r].versiones[2].estado = "vigente"

\* the five outcome counters of a promote result
Counters(res) ==
    <<res.recetasCreadas, res.recetasActualizadas, res.versionesAgregadas,
      res.versionesRechazadas, res.vigentesSeteadas>>

\* C21: for every staged batch, overwrite_version setting and store, promote
\* with dry_run returns the same five counters as promote without it from
\* that same store
C21_DryRunSameCounters ==
    \A b \in BatchIds, overwrite_version \in BOOLEAN :
        Counters(promote_staging_batch(recipes, staging, b, overwrite_version, TRUE).res)
            = Counters(promote_staging_batch(recipes, staging, b, overwrite_version, FALSE).res)

\* the same equality for batches in which no two groups name the same product
\* and no group overwrites an existing version with marcar_vigente set
DryRunSameCountersElsewhere ==
    \A b \in BatchIds, overwrite_version \in BOOLEAN :
        LET rows == StagedRows(staging, b)
            keys == GroupKeys(rows)
            overwrites(k) ==
                /\ overwrite_version
                /\ IsSet(get_pt_by_sku(k[1]))
                /\ to_bool(First(GroupRows(rows, k), "marcar_vigente"))
                /\ LET rid == find_by_pt_id(recipes, get_pt_by_sku(k[1])[1].id)
                   IN  rid > 0 /\ VersionExists(recipes[rid].versiones, k[2])
        IN  (/\ \A i, j \in 1..Len(keys) : keys[i][1] = keys[j][1] => i = j
             /\ \A i \in 1..Len(keys) : ~overwrites(keys[i]))
            => Counters(promote_staging_batch(recipes, staging, b,
                                              overwrite_version, TRUE).res)
                 = Counters(promote_staging_batch(recipes, staging, b,
                                                  overwrite_version, FALSE).res)

\* C22: promote with dry_run leaves the Recipe Store as it found it, and a
\* second dry run on the same batch returns the result of the first
C22_DryRunIdempotent ==
    \A b \in BatchIds, overwrite_version \in BOOLEAN :
        LET first == promote_staging_batch(recipes, staging, b, overwrite_version, TRUE)
            second == promote_staging_batch(first.store, staging, b,
                                            overwrite_version, TRUE)
        IN  /\ first.store = recipes
            /\ second.store = recipes
            /\ second.res = first.res

\* a dry run has just reported a recipe it would create, and the store is
\* still empty although the batch is staged
C22_Witness ==
    /\ resp.op = "promote_staging_batch"
    /\ resp.res.recetasCreadas > 0
    /\ recipes = <<>>
    /\ \E b \in BatchIds :
        /\ StagedRows(staging, b) # <<>>
        /\ promote_staging_batch(recipes, staging, b, FALSE, FALSE).store # recipes

\* the step is a promote of batch b that is not a dry run
RealPromoteStep(b) ==
    \E overwrite_version \in BOOLEAN :
        LET out == promote_staging_batch(recipes, staging, b, overwrite_version, FALSE)
        IN  /\ recipes' = out.store
            /\ resp' = [op |-> "promote_staging_batch", status |-> "ok", res |-> out.res]

RecipesOfPT1(store) ==
    {r \in 1..Len(store) : store[r].productPTId = get_pt_by_sku("PT1")[1].id}

BothDone == \A w \in Workers : pc[w] = "done"

\* C24: after two interleaved promotes of the same (product, version), of
\* which at least one wrote, there is one recipe for the product, holding one
\* version with that number, and its content is the document one of the
\* writing promotes wrote
C24_PromoteRaceLastWriterWins ==
    (/\ BothDone
     /\ \A w \in Workers : loc[w].op = "promote_staging_batch"
     /\ \E w \in Workers : loc[w].status # "rejected")
    => /\ Cardinality(RecipesOfPT1(recipes)) = 1
       /\ \A r \in RecipesOfPT1(recipes) :
            /\ Cardinality({i \in 1..Len(recipes[r].versiones) :
                              recipes[r].versiones[i].version = RaceVersion}) = 1
            /\ \E w \in Workers :
                /\ loc[w].status # "rejected"
                /\ \E i \in 1..Len(recipes[r].versiones) :
                      recipes[r].versiones[i] = loc[w].doc

\* the same for the races in which both promotes found the version stored
\* and replaced it
PromoteRaceOnStoredVersion ==
    (/\ BothDone
     /\ \A w \in Workers : loc[w].op = "promote_staging_batch" /\ loc[w].status = "replaced")
    => /\ Cardinality(RecipesOfPT1(recipes)) = 1
       /\ \A r \in RecipesOfPT1(recipes) :
            /\ Cardinality({i \in 1..Len(recipes[r].versiones) :
                              recipes[r].versiones[i].version = RaceVersion}) = 1
            /\ \E w \in Workers, i \in 1..Len(recipes[r].versiones) :
                  recipes[r].versiones[i] = loc[w].doc

\* run from its own read to its own write without the other in between,
\* the two-step promote writes what step 5 writes
PromoteApplyAgrees ==
    \A w \in Workers, m \in BOOLEAN, o \in BOOLEAN :
        LET ptId == get_pt_by_sku("PT1")[1].id
            rid == find_by_pt_id(recipes, ptId)
            idx == IF rid = 0 THEN 0 ELSE VersionIndex(recipes[rid].versiones, RaceVersion)
            vdoc == RaceVersionDoc(w, "")
        IN  PromoteApply(recipes, ptId, rid, idx, vdoc, m, o)
              = PromoteWrite([store |-> recipes, res |-> ZeroRes], ptId, vdoc, m, o, FALSE).store

\* C30: after a create_recipe interleaved with another create_recipe, or with
\* a promote that creates the recipe, for the same product, there is at most
\* one recipe document for the product and at most one of the two requests
\* succeeded in creating it (the other create_recipe ends in Conflict)
C30_CreateRaceOneRecipe ==
    (/\ BothDone
     /\ \E w \in Workers : loc[w].op = "create_recipe"
     /\ \A w \in Workers : loc[w].op = "create_recipe" \/ loc[w].status = "created")
    => /\ Cardinality(RecipesOfPT1(recipes)) <= 1
       /\ Cardinality({w \in Workers : loc[w].status \in {"ok", "created"}}) <= 1
       /\ \A w \in Workers :
            loc[w].op = "create_recipe" /\ loc[w].status # "ok"
                => loc[w].status = "La receta para este PT ya existe"

\* the last reply is a valuation that found its version
Valued == resp.op = "value_version" /\ resp.status = "ok"

\* the stored version the last valuation valued
ValuedVersion == StoredVersion(recipes, Products[resp.res.skuPT].id, resp.res.version)[1]

\* unit costs (in hundredths) the rule of C25 gives for the catalog: net
\* price else last cost; gross price else net price x 1.19 when positive else
\* last cost; last cost else net price; a value that is no number counts 0
ClaimedUnitCost ==
    [sku \in DOMAIN Products |->
        IF sku = "MP1" THEN [pneto |-> 450000, piva |-> 535500, last |-> 400000]
        ELSE IF sku = "MP2" THEN [pneto |-> 400000, piva |-> 400000, last |-> 400000]
        ELSE IF sku = "MP3" THEN [pneto |-> 10000, piva |-> 11900, last |-> 10000]
        ELSE IF sku = "MP4" THEN [pneto |-> 0, piva |-> 0, last |-> 700]
        ELSE IF sku = "MP5" THEN [pneto |-> 0, piva |-> 700, last |-> 700]
        ELSE [pneto |-> 0, piva |-> 0, last |-> 0]]

\* C25: in a valuation by net price, gross price or last cost, the line of
\* every resolved component carries the unit cost the method's fallback rule
\* gives, the effective quantity quantity x (1 + waste/100) and the subtotal
\* effective quantity x unit cost
C25_UnitCostByMethod ==
    Valued /\ resp.req.cost_method \in {"pneto", "piva", "last"}
    => \A i \in 1..Len(resp.res.breakdown) :
        LET line == resp.res.breakdown[i]
            comp == ValuedVersion.componentes[i]
        IN  line.sku # ""
            => /\ line.unit_cost = ClaimedUnitCost[line.sku][resp.req.cost_method]
               /\ line.qty_eff = comp.cantidadPorBase * (100 + comp.merma_pct)
               /\ line.subtotal = line.qty_eff * line.unit_cost

\* the scenario of the specification: net price 4500, waste 0, quantity 10
\* gives unit cost 4500, effective quantity 10, subtotal 45000
C25_Witness ==
    /\ Valued
    /\ resp.req.cost_method = "pneto"
    /\ \E i \in 1..Len(resp.res.breakdown) :
        /\ resp.res.breakdown[i].sku = "MP1"
        /\ resp.res.breakdown[i].unit_cost = 4500 * Hundredths
        /\ resp.res.breakdown[i].qty_eff = 10 * Hundredths
        /\ resp.res.breakdown[i].subtotal = 45000 * Hundredths * Hundredths

\* the i-th stored component of the valued version resolves to a product
Resolves(comp) == comp.productId \in ObjectIds /\ IsSet(find_product_by_id(comp.productId))

RECURSIVE SumResolved(_, _, _)
\* quantity x (1 + waste/100) x unit cost over the resolvable components,
\* from the i-th on
SumResolved(componentes, i, cost_method) ==
    IF i > Len(componentes) THEN 0
    ELSE (IF Resolves(componentes[i])
          THEN componentes[i].cantidadPorBase * (100 + componentes[i].merma_pct)
                 * ClaimedUnitCost[find_product_by_id(componentes[i].productId)[1].sku][cost_method]
          ELSE 0)
         + SumResolved(componentes, i + 1, cost_method)

\* C26: a valuation of a stored version succeeds whatever its components
\* hold: the breakdown has one line per stored component, the line of a
\* component whose productId is no identifier or names no product is all
\* zero and comes with exactly one warning, and the total is the sum over
\* the resolvable components plus the process cost
C26_UnresolvedComponentsDegrade ==
    /\ \A n \in 1..MaxVersion, m \in {"pneto", "piva", "last"} :
          StoredVersion(recipes, Products["PT1"].id, n) # <<>>
              => preview_valuation(recipes, "PT1", n, m, "CLP").status = "ok"
    /\ Valued /\ resp.req.cost_method \in {"pneto", "piva", "last"}
       => /\ Len(resp.res.breakdown) = Len(ValuedVersion.componentes)
          /\ \A i \in 1..Len(ValuedVersion.componentes) :
                ~Resolves(ValuedVersion.componentes[i])
                => /\ resp.res.breakdown[i].unit_cost = 0
                   /\ resp.res.breakdown[i].qty_eff = 0
                   /\ resp.res.breakdown[i].subtotal = 0
                   /\ Cardinality({k \in 1..Len(resp.res.warnings) :
                                      resp.res.warnings[k].i = i}) = 1
          /\ resp.res.total
                = SumResolved(ValuedVersion.componentes, 1, resp.req.cost_method)
                    + resp.res.process_cost

\* a valuation of the version with one resolvable, one malformed and one
\* dangling product reference: three lines, two of them zero, two warnings
\* for them, and a total that is not zero
C26_Witness ==
    /\ Valued
    /\ Len(resp.res.breakdown) = 3
    /\ \E i, j \in 1..3 :
        /\ ValuedVersion.componentes[i].productId \notin ObjectIds
        /\ ValuedVersion.componentes[j].productId \in ObjectIds
        /\ find_product_by_id(ValuedVersion.componentes[j].productId) = None
        /\ resp.res.breakdown[i].subtotal = 0
        /\ resp.res.breakdown[j].subtotal = 0
    /\ resp.res.total > resp.res.process_cost

InlineProcessValued ==
    /\ Valued
    /\ ValuedVersion.procesoEspecial_costo = Some(5)
    /\ resp.res.process_cost = 5 * Hundredths * Hundredths
    /\ resp.res.total = SumSubtotals(resp.res.breakdown, 1) + 5 * Hundredths * Hundredths
    /\ SumSubtotals(resp.res.breakdown, 1) > 0

\* C28: a valuation changes the Recipe Store exactly when it is asked to
\* persist (and finds its version): the computed cost is then written onto
\* the version, otherwise the store stays as it was
C28_PersistWritesCost ==
    [][resp'.op = "value_version"
          => ((resp'.req.persist /\ resp'.status = "ok") <=> recipes' # recipes)]_vars

\* the half of C28 about persist=false: a preview leaves the store as it was
PreviewLeavesStore ==
    [][resp'.op = "value_version" /\ ~resp'.req.persist => recipes' = recipes]_vars

\* C29: in every recipe the pointer and the states agree: a set
\* vigenteVersion references a version whose state is 'vigente', and every
\* version whose state is 'vigente' is the one vigenteVersion references
C29_PointerAgreesWithEstados ==
    \A r \in 1..Len(recipes) :
        LET rec == recipes[r]
        IN  /\ IsSet(rec.vigenteVersion)
                => \E i \in 1..Len(rec.versiones) :
                      /\ rec.versiones[i].version = rec.vigenteVersion[1]
                      /\ rec.versiones[i].estado = "vigente"
            /\ \A i \in 1..Len(rec.versiones) :
                  rec.versiones[i].estado = "vigente"
                      => rec.vigenteVersion = Some(rec.versiones[i].version)

====
